---------------------------- MODULE Spec2Model ----------------------------
(***************************************************************************)
(* Configuration resolution of the C/C++ extension:                        *)
(*   - the provider registry  (src/src/LanguageServer/customProviders.ts)  *)
(*   - the configuration store (src/src/LanguageServer/configurations.ts)  *)
(***************************************************************************)
EXTENDS Integers, Sequences, FiniteSets, TLC

VARIABLES
    providers,          \* CustomConfigurationProviderCollection.providers : id -> wrapper
    intelliSenseEngine, \* new CppSettings().intelliSenseEngine
    call                \* the last call made on the registry, with what it returned

regVars == <<providers, intelliSenseEngine, call>>

VARIABLES
    platform,                   \* process.platform
    propertiesFile,             \* this.propertiesFile !== null
    configurationJson,          \* this.configurationJson
    currentConfigurationIndex,  \* this.currentConfigurationIndex.Value
    configurationIncomplete,    \* this.configurationIncomplete
    compilerDefaults,           \* this.defaultCompilerPath ... defaultIntelliSenseMode
    vcpkg,                      \* this.vcpkgIncludes, this.vcpkgPathReady
    compileCommandFileWatchers, \* paths of the open fs watchers
    file,                       \* content of .vscode/c_cpp_properties.json
    mtimeNewer,                 \* stats.mtime > this.configFileWatcherFallbackTime
    settings,                   \* CppSettings(rootUri).default*
    edit,                       \* the edit command in flight and where it stands
    obs                         \* what the last handler did

storeVars == <<platform, propertiesFile, configurationJson, currentConfigurationIndex,
               configurationIncomplete, compilerDefaults, vcpkg,
               compileCommandFileWatchers, file, mtimeNewer, settings, edit, obs>>
vars == <<regVars, storeVars>>

(***************************************************************************)
(* Bounds                                                                  *)
(***************************************************************************)
\* number of providers registered at one time
MaxProviders == 2
\* select(i) is called with i in -1..MaxIndex
MaxIndex == 2
\* number of edit commands started in one run
MaxEdits == 1
\* number of fs watches the system grants when it does not refuse them all
MaxWatchers == 2

(***************************************************************************)
(* Provider registry                                                       *)
(***************************************************************************)
\* enum Version of the vscode-cpptools API
v0 == 0
v1 == 1
v2 == 2
Versions == {v0, v1, v2}

BasicCaps == {"canProvideConfiguration", "provideConfigurations"}
V1Caps == BasicCaps \cup {"dispose"}
V2Caps == V1Caps \cup {"canProvideBrowseConfiguration", "provideBrowseConfiguration"}

\* A provider object as an extension hands it in: a missing string member is "",
\* caps are the methods it exposes, obj tells two objects of one shape apart.
Provider(name, extensionId, caps, obj) ==
    [name |-> name, extensionId |-> extensionId, caps |-> caps, obj |-> obj]

\* The provider objects offered for registration; the last component tells two
\* objects of one shape apart.
ProviderObjs ==
    { Provider("Foo", "", BasicCaps, 1),            \* legacy provider
      Provider("Foo", "", BasicCaps, 2),            \* a second legacy one, same name
      Provider("Foo", "ext.foo", V2Caps, 1),        \* full v2 provider
      Provider("Bar", "ext.foo", V1Caps, 2),        \* same identity, v1 only
      Provider("Foo", "ext.foo2", V1Caps, 1),       \* same name, other identity
      Provider("ext.foo", "ext.foo3", V1Caps, 1),   \* named like another one's identity
      Provider("Foo", "ext.foo", BasicCaps, 3),     \* has an identity but no dispose
      Provider("", "ext.bad", V2Caps, 1),           \* no name
      Provider("Bar", "", {"canProvideConfiguration"}, 1) } \* no provideConfigurations

NoProvider == Provider("", "", {}, 0)
NoWrapper == [provider |-> NoProvider, _isReady |-> FALSE, _version |-> v0]

Has(provider, member) == member \in provider.caps

\* CustomProviderWrapper.constructor
CustomProviderWrapperLegacyNotReady(provider, version) ==
    [ provider |-> provider,
      _isReady |-> version >= v2,
      _version |-> IF provider.extensionId # "" /\ version = v0 THEN v1 ELSE version ]
CustomProviderWrapper(provider, version) ==
    [ provider |-> provider,
      _isReady |-> version < v2,
      _version |-> IF provider.extensionId # "" /\ version = v0 THEN v1 ELSE version ]

\* CustomProviderWrapper.isValid
isValid(w) ==
    LET valid0 == /\ w.provider.name # ""
                  /\ Has(w.provider, "canProvideConfiguration")
                  /\ Has(w.provider, "provideConfigurations")
        valid1 == IF valid0 /\ w._version > v0
                  THEN w.provider.extensionId # "" /\ Has(w.provider, "dispose")
                  ELSE valid0
        valid2 == IF valid1 /\ w._version > v1
                  THEN /\ Has(w.provider, "canProvideBrowseConfiguration")
                       /\ Has(w.provider, "provideBrowseConfiguration")
                  ELSE valid1
    IN  valid2

\* CustomProviderWrapper.extensionId / name / version
extensionId(w) == IF w._version = v0 THEN w.provider.name ELSE w.provider.extensionId
name(w) == w.provider.name
version(w) == w._version

\* CustomConfigurationProviderCollection.getId, for a provider object
getIdNameFirst(provider) ==
    IF provider.name # "" THEN provider.name
    ELSE IF provider.extensionId # "" THEN provider.extensionId
    ELSE ""
getId(provider) ==
    IF provider.extensionId # "" THEN provider.extensionId
    ELSE IF provider.name # "" THEN provider.name
    ELSE ""

has(reg, id) == id \in DOMAIN reg

\* Map.set / Map.delete
MapSet(reg, id, w) == [k \in DOMAIN reg \cup {id} |-> IF k = id THEN w ELSE reg[k]]
MapDelete(reg, id) == [k \in DOMAIN reg \ {id} |-> reg[k]]

\* the duplicate test of add: an entry under the identity counts as existing
\* only when both it and the new wrapper are v0
AddExists(reg, wrapper) ==
    /\ has(reg, extensionId(wrapper))
    /\ version(reg[extensionId(wrapper)]) = v0 /\ version(wrapper) = v0

\* CustomConfigurationProviderCollection.add: what it returns, the map it leaves,
\* the diagnostic it logs
addDeclaredVersion(reg, engine, provider, ver) ==
    LET wrapper == [CustomProviderWrapper(provider, ver) EXCEPT !._version = ver]
    IN  IF engine = "Disabled"
        THEN [ret |-> FALSE, providers |-> reg, log |-> "disabled"]
        ELSE IF ~isValid(wrapper)
        THEN [ret |-> FALSE, providers |-> reg, log |-> "missing"]
        ELSE IF ~AddExists(reg, wrapper)
        THEN [ret |-> TRUE, providers |-> MapSet(reg, extensionId(wrapper), wrapper),
              log |-> "none"]
        ELSE [ret |-> FALSE, providers |-> reg, log |-> "duplicate"]
addAlwaysStores(reg, engine, provider, ver) ==
    LET wrapper == CustomProviderWrapper(provider, ver)
    IN  IF engine = "Disabled"
        THEN [ret |-> FALSE, providers |-> reg, log |-> "disabled"]
        ELSE IF ~isValid(wrapper)
        THEN [ret |-> FALSE, providers |-> reg, log |-> "missing"]
        ELSE [ret |-> ~AddExists(reg, wrapper),
              providers |-> MapSet(reg, extensionId(wrapper), wrapper),
              log |-> IF AddExists(reg, wrapper) THEN "duplicate" ELSE "none"]
add(reg, engine, provider, ver) ==
    LET wrapper == CustomProviderWrapper(provider, ver)
    IN  IF engine = "Disabled"
        THEN [ret |-> FALSE, providers |-> reg, log |-> "disabled"]
        ELSE IF ~isValid(wrapper)
        THEN [ret |-> FALSE, providers |-> reg, log |-> "missing"]
        ELSE IF ~AddExists(reg, wrapper)
        THEN [ret |-> TRUE, providers |-> MapSet(reg, extensionId(wrapper), wrapper),
              log |-> "none"]
        ELSE [ret |-> FALSE, providers |-> reg, log |-> "duplicate"]

\* CustomConfigurationProviderCollection.get
get(reg, id) == IF has(reg, id) THEN reg[id] ELSE NoWrapper

\* CustomConfigurationProviderCollection.remove
remove(reg, provider) ==
    LET id == getId(provider)
    IN  IF has(reg, id)
        THEN [providers |-> MapDelete(reg, id), log |-> "none"]
        ELSE [providers |-> reg, log |-> "notRegistered"]

\* CustomConfigurationProviderCollection.checkId
checkIdFirstFound(reg, providerId) ==
    LET noUpdate == \E k \in DOMAIN reg : extensionId(reg[k]) = providerId
        found == { k \in DOMAIN reg : /\ extensionId(reg[k]) # providerId
                                      /\ name(reg[k]) = providerId
                                      /\ version(reg[k]) # v0 }
    IN  IF providerId = "" THEN providerId
        ELSE IF noUpdate THEN providerId
        ELSE IF Cardinality(found) >= 1
        THEN extensionId(reg[CHOOSE k \in found : TRUE])
        ELSE providerId
checkIdNameFirst(reg, providerId) ==
    LET noUpdate == \E k \in DOMAIN reg : extensionId(reg[k]) = providerId
        found == { k \in DOMAIN reg : /\ extensionId(reg[k]) # providerId
                                      /\ name(reg[k]) = providerId
                                      /\ version(reg[k]) # v0 }
    IN  IF providerId = "" THEN providerId
        ELSE IF Cardinality(found) = 1
        THEN extensionId(reg[CHOOSE k \in found : TRUE])
        ELSE providerId
checkId(reg, providerId) ==
    LET noUpdate == \E k \in DOMAIN reg : extensionId(reg[k]) = providerId
        found == { k \in DOMAIN reg : /\ extensionId(reg[k]) # providerId
                                      /\ name(reg[k]) = providerId
                                      /\ version(reg[k]) # v0 }
    IN  IF providerId = "" THEN providerId
        ELSE IF noUpdate THEN providerId
        ELSE IF Cardinality(found) = 1
        THEN extensionId(reg[CHOOSE k \in found : TRUE])
        ELSE providerId



(***************************************************************************)
(* Registry operations as actions                                          *)
(***************************************************************************)
IdStrings == {"", "Foo", "Bar", "ext.foo", "ext.foo2", "ext.foo3", "ext.bad"}

NoCall == [op |-> "none", p |-> NoProvider, ver |-> v0, id |-> "",
           ret |-> FALSE, w |-> NoWrapper, out |-> "", log |-> "none"]

EmptyRegistry == [k \in {} |-> NoWrapper]

Add(p, ver) ==
    LET r == add(providers, intelliSenseEngine, p, ver)
    IN  /\ Cardinality(DOMAIN r.providers) <= MaxProviders
        /\ providers' = r.providers
        /\ call' = [NoCall EXCEPT !.op = "add", !.p = p, !.ver = ver,
                                  !.ret = r.ret, !.log = r.log]
        /\ UNCHANGED <<intelliSenseEngine, storeVars>>

Remove(p) ==
    LET r == remove(providers, p)
    IN  /\ providers' = r.providers
        /\ call' = [NoCall EXCEPT !.op = "remove", !.p = p, !.log = r.log]
        /\ UNCHANGED <<intelliSenseEngine, storeVars>>

\* get(provider: string | CustomConfigurationProvider)
Get(id) ==
    /\ call' = [NoCall EXCEPT !.op = "get", !.id = id,
                              !.ret = has(providers, id), !.w = get(providers, id)]
    /\ UNCHANGED <<providers, intelliSenseEngine, storeVars>>

GetByProvider(p) ==
    /\ call' = [NoCall EXCEPT !.op = "get", !.p = p, !.id = getId(p),
                              !.ret = has(providers, getId(p)),
                              !.w = get(providers, getId(p))]
    /\ UNCHANGED <<providers, intelliSenseEngine, storeVars>>

CheckId(id) ==
    /\ call' = [NoCall EXCEPT !.op = "checkId", !.id = id,
                              !.out = checkId(providers, id)]
    /\ UNCHANGED <<providers, intelliSenseEngine, storeVars>>

\* CustomProviderWrapper.isReady (set)
SetReady(id, ready) ==
    /\ has(providers, id)
    /\ providers' = [providers EXCEPT ![id]._isReady = ready]
    /\ call' = [NoCall EXCEPT !.op = "setReady", !.id = id, !.ret = ready]
    /\ UNCHANGED <<intelliSenseEngine, storeVars>>

\* the user switches the C_Cpp.intelliSenseEngine setting
SetEngine(e) ==
    /\ intelliSenseEngine # e
    /\ intelliSenseEngine' = e
    /\ call' = NoCall
    /\ UNCHANGED <<providers, storeVars>>

RegInit ==
    /\ providers = EmptyRegistry
    /\ intelliSenseEngine = "Default"
    /\ call = NoCall


(***************************************************************************)
(* JSON values, strings and settings                                       *)
(***************************************************************************)
\* G applied to the value of x, which is worked out once: the statement
\* "let v = x; return G(v)"
Then(x, G(_)) == CHOOSE y \in {G(v) : v \in {x}} : TRUE

\* A JSON / JavaScript value: a member that is absent or undefined, null, a
\* boolean, a string, an array of strings, a number.
Undef == [k |-> "undef"]
Null == [k |-> "null"]
True == [k |-> "true"]
False == [k |-> "false"]
Str(t) == [k |-> "str", v |-> t]
Arr(l) == [k |-> "arr", v |-> l]
Num(n) == [k |-> "num", v |-> n]

\* !!x for the values above ("" and [] alike are written with k = "str" / "arr")
Truthy(x) ==
    CASE x.k \in {"undef", "null", "false"} -> FALSE
      [] x.k = "str" -> x.v # <<>>
      [] OTHER -> TRUE

\* A string is a sequence of tokens: literal text, a placeholder ${name}, or the
\* path-list separator ";".
Lit(text) == <<[t |-> "lit", s |-> text]>>
Var(n) == <<[t |-> "var", s |-> n]>>
Semi == <<[t |-> "semi", s |-> ";"]>>
DefaultToken == Var("default")

\* Array.prototype.join(";") over strings
RECURSIVE JoinSemi(_)
JoinSemi(list) ==
    IF list = <<>> THEN <<>>
    ELSE IF Len(list) = 1 THEN list[1]
    ELSE list[1] \o Semi \o JoinSemi(Tail(list))

\* String.prototype.split(";").filter(e => e)
RECURSIVE SplitSemiFrom(_, _, _)
SplitSemiFrom(str, i, cur) ==
    IF i > Len(str)
    THEN IF cur = <<>> THEN <<>> ELSE <<cur>>
    ELSE IF str[i].t = "semi"
    THEN (IF cur = <<>> THEN <<>> ELSE <<cur>>) \o SplitSemiFrom(str, i + 1, <<>>)
    ELSE SplitSemiFrom(str, i + 1, Append(cur, str[i]))
SplitSemi(string) == Then(string, LAMBDA str : SplitSemiFrom(str, 1, <<>>))

\* util.resolveVariables(input, env): every ${name} that the environment maps is
\* replaced by its value (a list joined with ";"); ${default} is never looked up;
\* a placeholder the environment does not map is left as it is.
RECURSIVE resolveVariablesFrom(_, _, _)
resolveVariablesFrom(str, i, env) ==
    IF i > Len(str) THEN <<>>
    ELSE LET tok == str[i]
             sub == IF tok.t = "var" /\ tok.s # "default" /\ tok.s \in DOMAIN env
                    THEN IF env[tok.s].k = "arr" THEN JoinSemi(env[tok.s].v)
                         ELSE env[tok.s].v
                    ELSE <<tok>>
         IN  sub \o resolveVariablesFrom(str, i + 1, env)
resolveVariablesUtil(input, env) ==
    Then(input, LAMBDA inp :
        IF ~Truthy(inp) THEN Str(<<>>)
        ELSE Str(resolveVariablesFrom(inp.v, 1, env)))


(***************************************************************************)
(* Configuration store: documents                                          *)
(***************************************************************************)
configVersion == 4

Platforms == {"darwin", "win32", "linux"}

\* interface Configuration, every optional member undefined
NamedConfig(nm) ==
    [ name |-> nm, compilerPath |-> Undef, cStandard |-> Undef, cppStandard |-> Undef,
      includePath |-> Undef, macFrameworkPath |-> Undef, windowsSdkVersion |-> Undef,
      defines |-> Undef, intelliSenseMode |-> Undef, compileCommands |-> Undef,
      forcedInclude |-> Undef, configurationProvider |-> Undef, browse |-> Undef ]

\* interface Browse
Browse(path, limit, db) ==
    [k |-> "obj", path |-> path, limitSymbolsToIncludedHeaders |-> limit,
     databaseFilename |-> db]

PlatformName(plat) ==
    IF plat = "darwin" THEN "Mac" ELSE IF plat = "win32" THEN "Win32" ELSE "Linux"

getDefaultConfig(plat) == NamedConfig(PlatformName(plat))

\* interface ConfigurationJson
Json(configurations, env, ver) ==
    [k |-> "obj", configurations |-> configurations, env |-> env, version |-> ver]

getDefaultCppProperties(plat) ==
    Json(Arr(<<getDefaultConfig(plat)>>), Undef, Num(configVersion))

\* The content of c_cpp_properties.json: no file, "", text that is no JSON, or
\* the JSON text of a value.
Absent == [k |-> "absent"]
EmptyText == [k |-> "empty"]
Garbage == [k |-> "garbage"]
Text(value) == [k |-> "json", v |-> value]

\* JSON.stringify(value, null, 4) and JSON.parse(text): members that are undefined
\* are left out of the text, which is what Undef stands for on both sides
Stringify(value) == Text(value)
JSONparse(text) == text.v

\* an environment mapping: Undef, or the keys with their values
Env(f) == [k |-> "obj", v |-> f]
ReservedKeys == {"workspaceRoot", "workspaceFolder", "workspaceFolderBasename", "default"}
DeleteReservedRootOnly(env) ==
    IF Truthy(env)
    THEN Env([key \in DOMAIN env.v \ {"workspaceRoot", "default"} |-> env.v[key]])
    ELSE env
DeleteReserved(env) ==
    IF Truthy(env)
    THEN Env([key \in DOMAIN env.v \ ReservedKeys |-> env.v[key]])
    ELSE env

(***************************************************************************)
(* Configuration store: state                                              *)
(***************************************************************************)
\* the handler's view of the store: the fields, what it has thrown, the parses it
\* ran and the notifications it fired
Cur ==
    [ propertiesFile |-> propertiesFile, configurationJson |-> configurationJson,
      idx |-> currentConfigurationIndex, incomplete |-> configurationIncomplete,
      defaults |-> compilerDefaults, vcpkg |-> vcpkg,
      watchers |-> compileCommandFileWatchers, file |-> file,
      mtimeNewer |-> mtimeNewer, settings |-> settings,
      thrown |-> FALSE, parses |-> <<>>, changed |-> <<>>, selected |-> <<>>,
      reconciled |-> FALSE, defaulted |-> FALSE, fileWrites |-> 0 ]

Configurations(s) == s.configurationJson.configurations.v
\* NaN, which undefined - 1 is: an index that is neither < nor >= any number; the
\* model writes it as a number above every index and every length
NaN == 99
InRange(s) == s.idx >= 0 /\ s.idx < Len(Configurations(s))
\* index < 0 || index >= configurations.length, lines 207-208, 574-575 and 613:
\* the length of a value that is no array is undefined, and no number is
\* >= undefined
IndexOutOfBounds(s) ==
    /\ s.idx # NaN
    /\ \/ s.idx < 0
       \/ /\ s.configurationJson.configurations.k = "arr"
          /\ s.idx >= Len(Configurations(s))
\* CurrentConfiguration is Configurations[CurrentConfigurationIndex], 0-based
CurrentConfiguration(s) == Configurations(s)[s.idx + 1]

Throw(s) == [s EXCEPT !.thrown = TRUE]

(***************************************************************************)
(* Configuration store: parsing and migration                              *)
(***************************************************************************)
\* getConfigIndexForPlatform(config): the loop runs over the in-memory list
getConfigIndexForPlatform(s, config, plat) ==
    LET n == Len(Configurations(s))
        hits == { i \in 1..n : /\ config.configurations.v[i] # Null
                                /\ config.configurations.v[i].name = PlatformName(plat) }
    IN  IF hits # {} THEN (CHOOSE i \in hits : \A j \in hits : i <= j) - 1
        ELSE IF s.configurationJson.configurations.k # "arr" THEN NaN
        ELSE n - 1

getIntelliSenseModeForHost(nm, plat) ==
    IF plat = "win32" THEN "msvc-x64"
    ELSE IF plat = "darwin" THEN "clang-x64"
    ELSE "gcc-x64"
getIntelliSenseModeForPlatform(nm, plat) ==
    IF nm = "Linux" THEN "gcc-x64"
    ELSE IF nm = "Mac" THEN "clang-x64"
    ELSE IF nm = "Win32" THEN "msvc-x64"
    ELSE IF plat = "win32" THEN "msvc-x64"
    ELSE IF plat = "darwin" THEN "clang-x64"
    ELSE "gcc-x64"

\* resetToDefaultSettings(resetIndex)
resetToDefaultSettingsFlagKept(state, resetIndex, plat) ==
    Then([state EXCEPT !.configurationJson = getDefaultCppProperties(plat)], LAMBDA s :
        IF resetIndex \/ IndexOutOfBounds(s)
        THEN [s EXCEPT !.idx = getConfigIndexForPlatform(s, s.configurationJson, plat)]
        ELSE s)
resetToDefaultSettings(state, resetIndex, plat) ==
    Then([state EXCEPT !.configurationJson = getDefaultCppProperties(plat),
                       !.incomplete = TRUE], LAMBDA s :
        IF resetIndex \/ IndexOutOfBounds(s)
        THEN [s EXCEPT !.idx = getConfigIndexForPlatform(s, s.configurationJson, plat)]
        ELSE s)

\* checkId applied to a configurationProvider member: a falsy value is returned as
\* it is; a string that is plain text is looked up; any other string names no
\* provider
checkIdOf(reg, value) ==
    IF ~Truthy(value) THEN value
    ELSE IF value.k = "str" /\ Len(value.v) = 1 /\ value.v[1].t = "lit"
    THEN Str(Lit(checkId(reg, value.v[1].s)))
    ELSE value

MapConfigs(json, F(_)) ==
    [json EXCEPT !.configurations.v =
        [i \in 1..Len(json.configurations.v) |-> F(json.configurations.v[i])]]

updateToVersion2(json) == [json EXCEPT !.version = Num(2)]

MacFrameworks == Arr(<<Lit("/System/Library/Frameworks"), Lit("/Library/Frameworks")>>)

updateToVersion3OnAnyHost(json, plat) ==
    LET up(config) ==
            IF /\ config.name # "Win32" /\ config.name # "Linux"
               /\ config.macFrameworkPath.k = "undef"
            THEN [config EXCEPT !.macFrameworkPath = MacFrameworks]
            ELSE config
    IN  MapConfigs([json EXCEPT !.version = Num(3)], up)
updateToVersion3(json, plat) ==
    LET up(config) ==
            IF /\ \/ config.name = "Mac"
                  \/ (plat = "darwin" /\ config.name # "Win32" /\ config.name # "Linux")
               /\ config.macFrameworkPath.k = "undef"
            THEN [config EXCEPT !.macFrameworkPath = MacFrameworks]
            ELSE config
    IN  MapConfigs([json EXCEPT !.version = Num(3)], up)

updateToVersion4KeepsVersion(json, plat, defaults, sett) == json
updateToVersion4(json, plat, defaults, sett) ==
    LET mode(c) ==
            IF c.intelliSenseMode.k = "undef" /\ ~Truthy(sett.defaultIntelliSenseMode)
            THEN [c EXCEPT !.intelliSenseMode =
                               Str(Lit(getIntelliSenseModeForPlatform(c.name, plat)))]
            ELSE c
        comp(c) ==
            IF /\ c.compilerPath.k = "undef" /\ Truthy(defaults.compilerPath)
               /\ ~Truthy(c.compileCommands) /\ ~Truthy(sett.defaultCompilerPath)
            THEN [c EXCEPT !.compilerPath = defaults.compilerPath]
            ELSE c
        cstd(c) ==
            IF /\ ~Truthy(c.cStandard) /\ Truthy(defaults.cStandard)
               /\ ~Truthy(sett.defaultCStandard)
            THEN [c EXCEPT !.cStandard = defaults.cStandard]
            ELSE c
        cpp(c) ==
            IF /\ ~Truthy(c.cppStandard) /\ Truthy(defaults.cppStandard)
               /\ ~Truthy(sett.defaultCppStandard)
            THEN [c EXCEPT !.cppStandard = defaults.cppStandard]
            ELSE c
        up(config) ==
            Then(config, LAMBDA c0 : Then(mode(c0), LAMBDA c1 :
            Then(comp(c1), LAMBDA c2 : Then(cstd(c2), LAMBDA c3 : cpp(c3)))))
    IN  MapConfigs([json EXCEPT !.version = Num(4)], up)

\* the fields parsePropertiesFile may touch
Snap(s) ==
    [json |-> s.configurationJson, idx |-> s.idx, incomplete |-> s.incomplete,
     file |-> s.file]

\* one run of parsePropertiesFile: how it ended, whether the error went on to the
\* caller, whether document, index, flag and file are what they were before it,
\* the version it read, the document it left in memory when it succeeded, whether
\* it tried to rewrite the file, whether that write failed, whether the file was
\* written, whether it warned of an unknown version
ParseRec(res, before, after, from, wrote, writeFailed, unknownVersion) ==
    [res |-> res, rethrown |-> after.thrown, kept |-> Snap(before) = Snap(after),
     from |-> from, doc |-> IF res = "ok" THEN after.configurationJson ELSE Undef,
     wrote |-> wrote, writeFailed |-> writeFailed,
     written |-> after.fileWrites > before.fileWrites,
     unknownVersion |-> unknownVersion]

\* fs.writeFileSync(this.propertiesFile.fsPath, text), when it succeeds
WriteFile(s, text, newer) ==
    [s EXCEPT !.file = text, !.mtimeNewer = newer, !.fileWrites = @ + 1]

\* the version chain of parsePropertiesFile, lines 638-654
Migrate(json, plat, defaults, sett) ==
    Then(IF json.version.k = "undef" THEN updateToVersion2(json) ELSE json, LAMBDA j2 :
    Then(IF j2.version = Num(2) THEN updateToVersion3(j2, plat) ELSE j2, LAMBDA j3 :
        IF j3.version = Num(3)
        THEN [json |-> updateToVersion4(j3, plat, defaults, sett), unknown |-> FALSE]
        ELSE [json |-> [j3 EXCEPT !.version = Num(configVersion)], unknown |-> TRUE]))

\* the new index when the configuration selected so far is found by name
IndexByName(s, newJson) ==
    LET oldName == CurrentConfiguration(s).name
        hits == { i \in 1..Len(newJson.configurations.v) :
                      newJson.configurations.v[i].name = oldName }
    IN  IF hits # {} THEN (CHOOSE i \in hits : \A j \in hits : i <= j) - 1
        ELSE s.idx

\* dirty, lines 617-639: a provider id was corrected or the version is not current
IsDirtyVersionOnly(idDirty, ver) == ver # Num(configVersion)
IsDirty(idDirty, ver) == idDirty \/ ver # Num(configVersion)

\* the catch block of parsePropertiesFile, lines 664-667: show the error, rethrow
ParseFailureClearsIncomplete(s) ==
    Then(Throw([s EXCEPT !.incomplete = FALSE]), LAMBDA t :
        [t EXCEPT !.parses = Append(@, ParseRec("failed", s, t, Undef, FALSE, FALSE, FALSE))])
ParseFailure(s) ==
    Then(Throw(s), LAMBDA t :
        [t EXCEPT !.parses = Append(@, ParseRec("failed", s, t, Undef, FALSE, FALSE, FALSE))])

\* the body of parsePropertiesFile once the text is read and found valid
ParseValid(s, newJson, reg, plat, writeFails, newer) ==
    LET fix(config) == [config EXCEPT !.configurationProvider = checkIdOf(reg, @)]
    IN  Then([s EXCEPT !.idx = IF ~s.incomplete /\ InRange(s)
                              THEN IndexByName(s, newJson) ELSE @,
                       !.configurationJson = newJson], LAMBDA s2 :
        Then(IF IndexOutOfBounds(s2)
             THEN [s2 EXCEPT !.idx = getConfigIndexForPlatform(s2, newJson, plat)]
             ELSE s2, LAMBDA s3 :
        Then(MapConfigs(s3.configurationJson, fix), LAMBDA j4 :
        Then([j4 EXCEPT !.env = DeleteReserved(@)], LAMBDA j5 :
        Then(IF j5.version # Num(configVersion)
             THEN Migrate(j5, plat, s.defaults, s.settings)
             ELSE [json |-> j5, unknown |-> FALSE], LAMBDA m :
        Then(IsDirty(j4 # s3.configurationJson, j5.version), LAMBDA dirty :
        Then([s3 EXCEPT !.configurationJson = m.json, !.incomplete = FALSE], LAMBDA s6 :
        Then(IF dirty /\ ~writeFails THEN WriteFile(s6, Stringify(m.json), newer)
             ELSE s6, LAMBDA s7 :
            [s7 EXCEPT !.parses =
                Append(@, ParseRec("ok", s, s7, j5.version, dirty,
                                   dirty /\ writeFails, m.unknown))]))))))))

\* the entries of the configurations list that are null: reading a member of one
\* is a TypeError
NullEntries(json) ==
    { i \in 1..Len(json.configurations.v) : json.configurations.v[i] = Null }
\* the first of them, or the place after the last entry when there is none
FirstNull(json) ==
    IF NullEntries(json) = {} THEN Len(json.configurations.v) + 1
    ELSE CHOOSE i \in NullEntries(json) : \A j \in NullEntries(json) : i <= j

\* parsePropertiesFile() from line 603 on when it meets a null entry: the search
\* by name (603-611) throws when the current configuration is null or no entry
\* before the first null one has its name; past it the document is installed
\* (612), and the index test (613-615) or the checkId loop (618-624) throws
ParseMalformed(s, newJson, reg, plat) ==
    LET n == FirstNull(newJson)
        before(nm) == { i \in 1..(n - 1) : newJson.configurations.v[i].name = nm }
        least(S) == CHOOSE i \in S : \A j \in S : i <= j
        search == ~s.incomplete /\ InRange(s)
        fail(t) ==
            Then(Throw(t), LAMBDA u :
                [u EXCEPT !.parses =
                    Append(@, ParseRec("failed", s, u, Undef, FALSE, FALSE, FALSE))])
        fix(config) == [config EXCEPT !.configurationProvider = checkIdOf(reg, @)]
    IN  IF search /\ (CurrentConfiguration(s) = Null
                      \/ before(CurrentConfiguration(s).name) = {})
        THEN ParseFailure(s)
        ELSE Then([s EXCEPT !.idx = IF search
                                    THEN least(before(CurrentConfiguration(s).name)) - 1
                                    ELSE @,
                            !.configurationJson = newJson], LAMBDA s2 :
             IF ~InRange(s2) /\ before(PlatformName(plat)) = {}
             THEN fail(s2)
             ELSE fail([s2 EXCEPT
                          !.idx = IF ~InRange(s2)
                                  THEN least(before(PlatformName(plat))) - 1 ELSE @,
                          !.configurationJson.configurations.v =
                              [i \in 1..Len(@) |-> IF i < n THEN fix(@[i]) ELSE @[i]]]))

\* parsePropertiesFile(): a failure is rethrown; "" returns without a word
parsePropertiesFile(state, reg, plat, writeFails, newer) ==
    Then(state, LAMBDA s :
        IF s.thrown THEN s
        ELSE IF ~s.propertiesFile \/ s.file.k \in {"absent", "garbage"}
        THEN ParseFailure(s)
        ELSE IF s.file.k = "empty"
        THEN [s EXCEPT !.parses = Append(@, ParseRec("empty", s, s, Undef, FALSE, FALSE, FALSE))]
        ELSE IF \/ ~Truthy(JSONparse(s.file))
                \/ ~Truthy(JSONparse(s.file).configurations)
                \/ /\ JSONparse(s.file).configurations.k = "arr"
                   /\ Len(JSONparse(s.file).configurations.v) = 0
        THEN ParseFailure(s)
        ELSE IF \/ NullEntries(JSONparse(s.file)) # {}
                \/ (~s.incomplete /\ InRange(s) /\ CurrentConfiguration(s) = Null)
        THEN ParseMalformed(s, JSONparse(s.file), reg, plat)
        ELSE ParseValid(s, JSONparse(s.file), reg, plat, writeFails, newer))

(***************************************************************************)
(* Configuration store: defaulting and the per-property merge              *)
(***************************************************************************)
\* CppSettings(rootUri): every default* accessor, null when the setting is unset
NoSettings ==
    [ defaultIncludePath |-> Null, defaultDefines |-> Null,
      defaultMacFrameworkPath |-> Null, defaultWindowsSdkVersion |-> Null,
      defaultForcedInclude |-> Null, defaultCompileCommands |-> Null,
      defaultCompilerPath |-> Null, defaultCStandard |-> Null,
      defaultCppStandard |-> Null, defaultIntelliSenseMode |-> Null,
      defaultConfigurationProvider |-> Null, defaultBrowsePath |-> Null,
      defaultLimitSymbolsToIncludedHeaders |-> Null, defaultDatabaseFilename |-> Null ]

\* the fields default* of the store before the compiler defaults arrive
NoCompilerDefaults ==
    [ compilerPath |-> Null, cStandard |-> Null, cppStandard |-> Null,
      includes |-> Null, frameworks |-> Null, windowsSdkVersion |-> Null,
      intelliSenseMode |-> Null ]

isUnsetLoose(input) == ~Truthy(input) \/ input.k = "arr"
isUnset(input) == input.k = "null"

\* the condition of applyDefaultIncludePathsAndFrameworks, line 215
DefaultingGateWithoutFlag(s) ==
    /\ Truthy(s.defaults.includes) /\ Truthy(s.defaults.frameworks)
    /\ s.vcpkg.ready
DefaultingGate(s) ==
    /\ s.incomplete /\ Truthy(s.defaults.includes) /\ Truthy(s.defaults.frameworks)
    /\ s.vcpkg.ready

\* applyDefaultIncludePathsAndFrameworks(): writing a member of the current
\* configuration throws when the index names no configuration
applyDefaultIncludePathsAndFrameworks(state, plat, recursive) ==
    Then(state, LAMBDA s :
    LET sett == s.settings
        d == s.defaults
        gate == DefaultingGate(s)
        rootFolder == IF recursive THEN Var("workspaceFolder") \o Lit("/**")
                      ELSE Var("workspaceFolder")
        setInc == isUnset(sett.defaultIncludePath)
        setDef == isUnset(sett.defaultDefines)
        setMac == isUnset(sett.defaultMacFrameworkPath) /\ plat = "darwin"
        setSdk == /\ isUnset(sett.defaultWindowsSdkVersion)
                  /\ Truthy(d.windowsSdkVersion) /\ plat = "win32"
        setComp == isUnset(sett.defaultCompilerPath) /\ Truthy(d.compilerPath)
        setC == isUnset(sett.defaultCStandard) /\ Truthy(d.cStandard)
        setCpp == isUnset(sett.defaultCppStandard) /\ Truthy(d.cppStandard)
        setMode == isUnset(sett.defaultIntelliSenseMode)
        c0 == CurrentConfiguration(s)
        c1 == IF setInc
              THEN [c0 EXCEPT !.includePath = Arr(<<rootFolder>> \o s.vcpkg.includes)]
              ELSE c0
        c2 == IF setDef
              THEN [c1 EXCEPT !.defines =
                       IF plat = "win32"
                       THEN Arr(<<Lit("_DEBUG"), Lit("UNICODE"), Lit("_UNICODE")>>)
                       ELSE Arr(<<>>)]
              ELSE c1
        c3 == IF setMac THEN [c2 EXCEPT !.macFrameworkPath = d.frameworks] ELSE c2
        c4 == IF setSdk THEN [c3 EXCEPT !.windowsSdkVersion = d.windowsSdkVersion] ELSE c3
        c5 == IF setComp THEN [c4 EXCEPT !.compilerPath = d.compilerPath] ELSE c4
        c6 == IF setC THEN [c5 EXCEPT !.cStandard = d.cStandard] ELSE c5
        c7 == IF setCpp THEN [c6 EXCEPT !.cppStandard = d.cppStandard] ELSE c6
        c8 == IF setMode THEN [c7 EXCEPT !.intelliSenseMode = d.intelliSenseMode] ELSE c7
    IN  IF s.thrown \/ ~gate THEN s
        ELSE IF ~InRange(s) \/ CurrentConfiguration(s) = Null
        THEN IF setInc \/ setDef \/ setMac \/ setSdk \/ setComp \/ setC \/ setCpp \/ setMode
             THEN Throw(s)
             ELSE [s EXCEPT !.incomplete = FALSE, !.defaulted = TRUE]
        ELSE [s EXCEPT !.configurationJson.configurations.v[s.idx + 1] = c8,
                       !.incomplete = FALSE, !.defaulted = TRUE])

\* get ExtendedEnvironment
ExtendedEnvironment(s) ==
    LET env == s.configurationJson.env
        keys == IF Truthy(env) THEN DOMAIN env.v ELSE {}
    IN  [key \in keys \cup {"workspaceFolderBasename"} |->
            IF key = "workspaceFolderBasename" THEN Str(Lit("ws")) ELSE env.v[key]]

\* resolveDefaults(entries, defaultValue)
RECURSIVE resolveDefaults(_, _)
resolveDefaults(entries, defaultValue) ==
    IF entries = <<>> THEN <<>>
    ELSE (IF Head(entries) = DefaultToken
          THEN IF defaultValue.k # "null" THEN defaultValue.v ELSE <<>>
          ELSE <<Head(entries)>>)
         \o resolveDefaults(Tail(entries), defaultValue)

\* resolveAndSplit(paths, defaultValue, env)
RECURSIVE resolveAndSplitFrom(_, _, _, _)
resolveAndSplitFrom(paths, i, defaultValue, env) ==
    IF i > Len(paths) THEN <<>>
    ELSE resolveDefaults(SplitSemi(resolveVariablesUtil(Str(paths[i]), env).v), defaultValue)
         \o resolveAndSplitFrom(paths, i + 1, defaultValue, env)
resolveAndSplitDefaultsLast(paths, defaultValue, env) ==
    IF Truthy(paths)
    THEN Arr(resolveAndSplitFrom(paths.v, 1, Arr(<<>>), env)
             \o (IF resolveAndSplitFrom(paths.v, 1, Arr(<<>>), env)
                      # resolveAndSplitFrom(paths.v, 1, Arr(<<DefaultToken>>), env)
                  THEN resolveDefaults(<<DefaultToken>>, defaultValue) ELSE <<>>))
    ELSE Arr(<<>>)
resolveAndSplit(paths, defaultValue, env) ==
    IF Truthy(paths) THEN Arr(resolveAndSplitFrom(paths.v, 1, defaultValue, env))
    ELSE Arr(<<>>)

\* resolveVariables(input, defaultValue, env) of the store
resolveVariables(input, defaultValue, env) ==
    LET inp == IF input.k = "undef" \/ input = Str(DefaultToken)
               THEN defaultValue ELSE input
    IN  IF inp.k \in {"true", "false"} THEN inp
        ELSE resolveVariablesUtil(inp, env)

isString(x) == x.k = "str"
isBoolean(x) == x.k \in {"true", "false"}
isArrayOfString(x) == x.k = "arr"

\* updateConfiguration(property, defaultValue, env)
updateConfiguration(property, defaultValue, env) ==
    IF isString(property) \/ isString(defaultValue)
    THEN resolveVariables(property, defaultValue, env)
    ELSE IF isBoolean(property) \/ isBoolean(defaultValue)
    THEN resolveVariables(property, defaultValue, env)
    ELSE IF isArrayOfString(property) \/ isArrayOfString(defaultValue)
    THEN IF Truthy(property) THEN resolveAndSplit(property, defaultValue, env)
         ELSE IF property.k = "undef" /\ Truthy(defaultValue)
         THEN resolveAndSplit(defaultValue, Arr(<<>>), env)
         ELSE property
    ELSE property

\* /^\$\{(workspaceRoot|workspaceFolder)\}(\\|\\\*\*|\/|\/\*\*)?$/
IsWorkspaceFolderPath(str) ==
    /\ Len(str) \in {1, 2}
    /\ str[1].t = "var" /\ str[1].s = "workspaceFolder"
    /\ Len(str) = 2 => (str[2].t = "lit" /\ str[2].s \in {"\\", "\\**", "/", "/**"})
IsWorkspaceRootPath(str) ==
    /\ Len(str) \in {1, 2}
    /\ str[1].t = "var" /\ str[1].s \in {"workspaceRoot", "workspaceFolder"}
    /\ Len(str) = 2 => (str[2].t = "lit" /\ str[2].s \in {"\\", "\\**", "/", "/**"})

\* the body of the loop of updateServerOnFolderSettingsChange, for one configuration
MergeConfiguration(c, sett, env) ==
    Then([c EXCEPT
            !.includePath = updateConfiguration(@, sett.defaultIncludePath, env),
            !.defines = updateConfiguration(@, sett.defaultDefines, env),
            !.macFrameworkPath = updateConfiguration(@, sett.defaultMacFrameworkPath, env),
            !.windowsSdkVersion = updateConfiguration(@, sett.defaultWindowsSdkVersion, env),
            !.forcedInclude = updateConfiguration(@, sett.defaultForcedInclude, env),
            !.compileCommands = updateConfiguration(@, sett.defaultCompileCommands, env),
            !.compilerPath = updateConfiguration(@, sett.defaultCompilerPath, env),
            !.cStandard = updateConfiguration(@, sett.defaultCStandard, env),
            !.cppStandard = updateConfiguration(@, sett.defaultCppStandard, env),
            !.intelliSenseMode = updateConfiguration(@, sett.defaultIntelliSenseMode, env),
            !.configurationProvider =
                updateConfiguration(@, sett.defaultConfigurationProvider, env)],
         LAMBDA c1 :
    Then(IF ~Truthy(c1.browse) THEN Browse(Undef, Undef, Undef) ELSE c1.browse,
         LAMBDA b0 :
    Then(IF ~Truthy(b0.path)
         THEN IF Truthy(sett.defaultBrowsePath) THEN sett.defaultBrowsePath
              ELSE IF Truthy(c1.includePath)
              THEN IF \E i \in 1..Len(c1.includePath.v) :
                          IsWorkspaceRootPath(c1.includePath.v[i])
                   THEN c1.includePath
                   ELSE Arr(Append(c1.includePath.v, Var("workspaceFolder")))
              ELSE b0.path
         ELSE updateConfiguration(b0.path, sett.defaultBrowsePath, env),
         LAMBDA path :
        [c1 EXCEPT !.browse =
            Browse(path,
                   updateConfiguration(b0.limitSymbolsToIncludedHeaders,
                                       sett.defaultLimitSymbolsToIncludedHeaders, env),
                   updateConfiguration(b0.databaseFilename,
                                       sett.defaultDatabaseFilename, env))])))

(***************************************************************************)
(* Configuration store: reconciliation                                     *)
(***************************************************************************)
\* the compile-commands files that exist on disk
ExistingCompileCommands == {Lit("/ws/build/compile_commands.json")}
existsSync(pathValue) == pathValue.k = "str" /\ pathValue.v \in ExistingCompileCommands

\* the members of a Set<string> in insertion order
RECURSIVE Distinct(_)
Distinct(list) ==
    IF list = <<>> THEN <<>>
    ELSE Then(Distinct(SubSeq(list, 1, Len(list) - 1)), LAMBDA front :
             IF \E i \in 1..Len(front) : front[i] = list[Len(list)] THEN front
             ELSE Append(front, list[Len(list)]))

\* updateCompileCommandsFileWatchers(): fs.watch throws once `limit` watches are open
updateCompileCommandsFileWatchers(s, limit) ==
    LET cs == Configurations(s)
        RECURSIVE collect(_)
        collect(i) ==
            IF i > Len(cs) THEN <<>>
            ELSE (IF cs[i].compileCommands.k # "undef" /\ existsSync(cs[i].compileCommands)
                  THEN <<cs[i].compileCommands.v>> ELSE <<>>) \o collect(i + 1)
    IN  IF s.configurationJson.configurations.k # "arr"
        THEN Throw([s EXCEPT !.watchers = <<>>])
        ELSE Then(Distinct(collect(1)), LAMBDA filePaths :
                 [s EXCEPT !.watchers = IF Len(filePaths) <= limit THEN filePaths
                                        ELSE SubSeq(filePaths, 1, limit)])

\* updateServerOnFolderSettingsChange()
updateServerOnFolderSettingsChangeAlways(state, limit) ==
    Then(state, LAMBDA s :
        IF s.thrown THEN s
        ELSE IF NullEntries(s.configurationJson) # {}
        THEN Throw([s EXCEPT !.configurationJson.configurations.v =
                       [i \in 1..Len(@) |->
                           IF i < FirstNull(s.configurationJson)
                           THEN MergeConfiguration(@[i], s.settings, ExtendedEnvironment(s))
                           ELSE @[i]]])
        ELSE Then(ExtendedEnvironment(s), LAMBDA env :
             Then([s EXCEPT !.configurationJson =
                      MapConfigs(@, LAMBDA c : MergeConfiguration(c, s.settings, env))],
                  LAMBDA s1 :
             Then(updateCompileCommandsFileWatchers(s1, limit), LAMBDA s2 :
                 IF ~s2.thrown
                 THEN [s2 EXCEPT !.changed = Append(@, Configurations(s2))]
                 ELSE s2))))
updateServerOnFolderSettingsChange(state, limit) ==
    Then(state, LAMBDA s :
        IF s.thrown THEN s
        ELSE IF NullEntries(s.configurationJson) # {}
        THEN Throw([s EXCEPT !.configurationJson.configurations.v =
                       [i \in 1..Len(@) |->
                           IF i < FirstNull(s.configurationJson)
                           THEN MergeConfiguration(@[i], s.settings, ExtendedEnvironment(s))
                           ELSE @[i]]])
        ELSE Then(ExtendedEnvironment(s), LAMBDA env :
             Then([s EXCEPT !.configurationJson =
                      MapConfigs(@, LAMBDA c : MergeConfiguration(c, s.settings, env))],
                  LAMBDA s1 :
             Then(updateCompileCommandsFileWatchers(s1, limit), LAMBDA s2 :
                 IF ~s2.thrown /\ ~s2.incomplete
                 THEN [s2 EXCEPT !.changed = Append(@, Configurations(s2))]
                 ELSE s2))))

\* what a handler draws from its surroundings: whether the write-back of a parse
\* fails, whether a write lands after the time stamp taken by the reconciliation,
\* the A/B flag UseRecursiveIncludes, how many watches can be opened
In(writeFails, newer, recursive, limit) ==
    [writeFails |-> writeFails, newer |-> newer, recursive |-> recursive,
     limit |-> limit]

\* the index test of handleConfigurationChange, lines 574-580
NormaliseIndex(state, plat) ==
    Then(state, LAMBDA s :
        IF ~s.thrown /\ IndexOutOfBounds(s)
        THEN IF /\ NullEntries(s.configurationJson) # {}
                /\ \A i \in 1..(FirstNull(s.configurationJson) - 1) :
                       Configurations(s)[i].name # PlatformName(plat)
             THEN Throw(s)
             ELSE [s EXCEPT !.idx = getConfigIndexForPlatform(s, s.configurationJson, plat)]
        ELSE s)

\* handleConfigurationChange()
handleConfigurationChange(state, reg, plat, in) ==
    Then(state, LAMBDA s :
        IF s.thrown THEN s
        ELSE Then(IF s.propertiesFile
                  THEN NormaliseIndex(
                           parsePropertiesFile([s EXCEPT !.mtimeNewer = FALSE], reg, plat,
                                               in.writeFails, in.newer),
                           plat)
                  ELSE [s EXCEPT !.mtimeNewer = FALSE], LAMBDA s1 :
             Then(applyDefaultIncludePathsAndFrameworks(s1, plat, in.recursive),
                  LAMBDA s2 :
             Then(updateServerOnFolderSettingsChange(s2, in.limit), LAMBDA s3 :
                 IF s3.thrown THEN s3 ELSE [s3 EXCEPT !.reconciled = TRUE]))))

(***************************************************************************)
(* Configuration store: what the surroundings supply                       *)
(***************************************************************************)
CompileCommandsPath == Lit("/ws/build/compile_commands.json")
IncludeToAdd == Lit("/new/inc")

\* a current document: a list with ${default} and a user variable, a reserved key
\* in env, a provider named by its name
DocV4 ==
    Json(Arr(<<[NamedConfig("Linux") EXCEPT
                   !.includePath = Arr(<<DefaultToken, Var("myInc")>>),
                   !.compileCommands = Str(CompileCommandsPath)],
               [NamedConfig("Win32") EXCEPT
                   !.compileCommands = Str(Lit("/ws/out/compile_commands.json")),
                   !.intelliSenseMode = Str(Lit("msvc-x64")),
                   !.configurationProvider = Str(Lit("Foo"))]>>),
         Env(("myInc" :> Arr(<<Lit("/a"), Lit("/b")>>))
             @@ ("workspaceFolder" :> Str(Lit("/elsewhere")))),
         Num(configVersion))

\* a document of an earlier (or unknown) version
DocOld(ver) ==
    Json(Arr(<<NamedConfig("Mac"),
               [NamedConfig("Custom") EXCEPT
                   !.cStandard = Str(Lit("c99")),
                   !.configurationProvider = Str(Lit("Foo"))]>>),
         Undef, ver)

\* a version 2 document whose "Mac" configuration has ${workspaceRoot}/** as
\* include path, its own frameworks and "" as C++ standard, beside a configuration of another platform with compile commands,
\* an IntelliSense mode and a browse path of its own
DocV2Frameworks ==
    Json(Arr(<<[NamedConfig("Mac") EXCEPT
                   !.includePath = Arr(<<Var("workspaceRoot") \o Lit("/**")>>),
                   !.macFrameworkPath = Arr(<<Lit("/my/Frameworks")>>),
                   !.cppStandard = Str(<<>>)],
               [NamedConfig("Linux") EXCEPT
                   !.intelliSenseMode = Str(Lit("clang-x64")),
                   !.compileCommands = Str(CompileCommandsPath),
                   !.browse = Browse(Arr(<<DefaultToken, Lit("/src")>>), Undef, Undef)]>>),
         Undef, Num(2))

\* a current document whose configurations member is {}, no list: it has no
\* entries, its length is undefined and it has no forEach
DocNoList == Json([k |-> "obj", v |-> <<>>], Undef, Num(configVersion))

\* a version 2 document whose one configuration is null
DocNullEntry == Json(Arr(<<Null>>), Undef, Num(2))

\* what an editor, a tool or a checkout can leave in c_cpp_properties.json:
\* texts that parsing rejects, ...
FailingTexts ==
    { Absent, Garbage, Text(Null), Text(Json(Undef, Undef, Num(configVersion))),
      Text(Json(Arr(<<>>), Undef, Num(configVersion))) }
\* ... documents that parsing has to repair, ...
OldTexts ==
    { Text(DocOld(Undef)), Text(DocOld(Num(2))), Text(DocOld(Num(3))),
      Text(DocOld(Num(5))) }
\* ... and all of them
ExternalTexts == FailingTexts \cup OldTexts \cup {EmptyText, Text(DocV4)}

\* C_Cpp.default.* as the user may have set them
UserSettings ==
    [NoSettings EXCEPT !.defaultIncludePath = Arr(<<Lit("/opt/inc")>>),
                       !.defaultCompilerPath = Str(Lit("/usr/bin/clang")),
                       !.defaultConfigurationProvider = Str(Lit("ext.foo")),
                       !.defaultBrowsePath = Arr(<<Lit("/opt/browse")>>)]
SettingsProfiles == {NoSettings, UserSettings}

\* interface CompilerDefaults as the language server reports it
DetectedDefaults(plat) ==
    [ compilerPath |-> Str(Lit("/usr/bin/gcc")), cStandard |-> Str(Lit("c11")),
      cppStandard |-> Str(Lit("c++17")), includes |-> Arr(<<Lit("/usr/include")>>),
      frameworks |-> IF plat = "darwin" THEN MacFrameworks ELSE Arr(<<>>),
      windowsSdkVersion |-> IF plat = "win32" THEN Str(Lit("10.0.17134.0")) ELSE Str(<<>>),
      intelliSenseMode |-> Str(Lit(getIntelliSenseModeForPlatform("", plat))) ]

\* the include directories the vcpkg scan can find
VcpkgScans == { <<Var("vcpkgRoot") \o Lit("/x64-linux/include")>> }

\* the provider that registers while the store is in use
StoreProviders == { Provider("Foo", "ext.foo", V2Caps, 1) }
ProviderIds == {"ext.foo", ""}

SelectIndexes == -1..MaxIndex
\* all goes well; the write-back fails; a write carries the time stamp of the
\* reconciliation; no watch is granted
Ins ==
    { In(FALSE, TRUE, FALSE, MaxWatchers), In(TRUE, FALSE, FALSE, MaxWatchers),
      In(FALSE, FALSE, TRUE, MaxWatchers), In(FALSE, TRUE, TRUE, 0) }

(***************************************************************************)
(* Configuration store: construction and the handlers' results             *)
(***************************************************************************)
Obs(op, r) ==
    [op |-> op, thrown |-> r.thrown, parses |-> r.parses, changed |-> r.changed,
     selected |-> r.selected, reconciled |-> r.reconciled, defaulted |-> r.defaulted,
     fileWrites |-> r.fileWrites]
NoObs(op) == Obs(op, Cur)

IdleEdit(count) == [pc |-> "idle", cmd |-> "", arg |-> "", text |-> Absent, count |-> count]

\* the constructor up to the file watcher registration, lines 106-120
Construct(plat, idx0, f, sett, in) ==
    Then([ propertiesFile |-> f.k # "absent", configurationJson |-> Null, idx |-> idx0,
           incomplete |-> TRUE, defaults |-> NoCompilerDefaults,
           vcpkg |-> [ready |-> FALSE, includes |-> <<>>], watchers |-> <<>>,
           file |-> f, mtimeNewer |-> FALSE, settings |-> sett,
           thrown |-> FALSE, parses |-> <<>>, changed |-> <<>>, selected |-> <<>>,
           reconciled |-> FALSE, defaulted |-> FALSE, fileWrites |-> 0 ], LAMBDA s0 :
    Then(IF s0.propertiesFile
         THEN parsePropertiesFile(s0, EmptyRegistry, plat, in.writeFails, in.newer)
         ELSE s0, LAMBDA s1 :
        IF ~s1.thrown /\ ~Truthy(s1.configurationJson)
        THEN resetToDefaultSettings(s1, s1.idx = -1, plat)
        ELSE s1))

StoreIs(plat, r, ed, o) ==
    /\ platform = plat
    /\ propertiesFile = r.propertiesFile
    /\ configurationJson = r.configurationJson
    /\ currentConfigurationIndex = r.idx
    /\ configurationIncomplete = r.incomplete
    /\ compilerDefaults = r.defaults
    /\ vcpkg = r.vcpkg
    /\ compileCommandFileWatchers = r.watchers
    /\ file = r.file
    /\ mtimeNewer = r.mtimeNewer
    /\ settings = r.settings
    /\ edit = ed
    /\ obs = o

\* the store after a handler that ended in r
Commit(op, result) ==
    \E r \in {result} :
        /\ propertiesFile' = r.propertiesFile
        /\ configurationJson' = r.configurationJson
        /\ currentConfigurationIndex' = r.idx
        /\ configurationIncomplete' = r.incomplete
        /\ compilerDefaults' = r.defaults
        /\ vcpkg' = r.vcpkg
        /\ compileCommandFileWatchers' = r.watchers
        /\ file' = r.file
        /\ mtimeNewer' = r.mtimeNewer
        /\ settings' = r.settings
        /\ obs' = Obs(op, r)
        /\ UNCHANGED <<platform, regVars>>

\* the store once its constructor has returned
Constructed(plats, texts, setts) ==
    \E plat \in plats, idx0 \in SelectIndexes, f \in texts,
       sett \in setts, in \in Ins :
       \E r \in {Construct(plat, idx0, f, sett, in)} :
           /\ ~r.thrown
           /\ StoreIs(plat, r, IdleEdit(0), Obs("constructor", r))

(***************************************************************************)
(* Configuration store: events                                             *)
(***************************************************************************)
\* configFileWatcher.onDidCreate
OnDidCreate(in) ==
    /\ Commit("onDidCreate",
              handleConfigurationChange([Cur EXCEPT !.propertiesFile = TRUE],
                                        providers, platform, in))
    /\ UNCHANGED edit

\* configFileWatcher.onDidDelete
OnDidDelete(in) ==
    /\ Commit("onDidDelete",
              handleConfigurationChange(
                  resetToDefaultSettings([Cur EXCEPT !.propertiesFile = FALSE],
                                         TRUE, platform),
                  providers, platform, in))
    /\ UNCHANGED edit

\* configFileWatcher.onDidChange
OnDidChange(in) ==
    /\ Commit("onDidChange", handleConfigurationChange(Cur, providers, platform, in))
    /\ UNCHANGED edit

\* set CompilerDefaults
SetCompilerDefaults(in) ==
    /\ Commit("CompilerDefaults",
              handleConfigurationChange(
                  [Cur EXCEPT !.defaults = DetectedDefaults(platform)],
                  providers, platform, in))
    /\ UNCHANGED edit

\* buildVcpkgIncludePath(), from the end of the directory scan on
VcpkgDone(includes, in) ==
    /\ ~vcpkg.ready
    /\ Commit("buildVcpkgIncludePath",
              handleConfigurationChange(
                  [Cur EXCEPT !.vcpkg = [ready |-> TRUE, includes |-> includes]],
                  providers, platform, in))
    /\ UNCHANGED edit

\* onDidChangeSettings(), the settings being sett by then
onDidChangeSettingsAlways(state, reg, plat, in) ==
    Then(state, LAMBDA s :
        IF ~s.propertiesFile
        THEN handleConfigurationChange(resetToDefaultSettings(s, TRUE, plat),
                                       reg, plat, in)
        ELSE handleConfigurationChange(s, reg, plat, in))
onDidChangeSettings(state, reg, plat, in) ==
    Then(state, LAMBDA s :
        IF ~s.propertiesFile
        THEN handleConfigurationChange(resetToDefaultSettings(s, TRUE, plat),
                                       reg, plat, in)
        ELSE IF ~s.incomplete
        THEN handleConfigurationChange(s, reg, plat, in)
        ELSE s)
OnDidChangeSettings(sett, in) ==
    /\ Commit("onDidChangeSettings",
              onDidChangeSettings([Cur EXCEPT !.settings = sett],
                                  providers, platform, in))
    /\ UNCHANGED edit

\* checkCppProperties(), from the answer of fs.stat on
checkCppPropertiesAnyTime(state, reg, plat, in) ==
    Then(state, LAMBDA s :
        IF s.file.k = "absent"
        THEN IF s.propertiesFile
             THEN handleConfigurationChange(
                      resetToDefaultSettings([s EXCEPT !.propertiesFile = FALSE],
                                             TRUE, plat),
                      reg, plat, in)
             ELSE s
        ELSE handleConfigurationChange([s EXCEPT !.propertiesFile = TRUE], reg, plat, in))
checkCppProperties(state, reg, plat, in) ==
    Then(state, LAMBDA s :
        IF s.file.k = "absent"
        THEN IF s.propertiesFile
             THEN handleConfigurationChange(
                      resetToDefaultSettings([s EXCEPT !.propertiesFile = FALSE],
                                             TRUE, plat),
                      reg, plat, in)
             ELSE s
        ELSE IF s.mtimeNewer
        THEN handleConfigurationChange([s EXCEPT !.propertiesFile = TRUE], reg, plat, in)
        ELSE s)
CheckCppProperties(in) ==
    /\ Commit("checkCppProperties", checkCppProperties(Cur, providers, platform, in))
    /\ UNCHANGED edit

\* the file is written, or removed, by something other than the store
ExternalWrite(text) ==
    /\ text # file \/ (~mtimeNewer /\ text.k # "absent")
    /\ file' = text
    /\ mtimeNewer' = (text.k # "absent")
    /\ obs' = NoObs("external")
    /\ UNCHANGED <<platform, propertiesFile, configurationJson, currentConfigurationIndex,
                   configurationIncomplete, compilerDefaults, vcpkg,
                   compileCommandFileWatchers, settings, edit, regVars>>

\* an extension registers its provider
RegisterProvider(p) ==
    /\ \E r \in {add(providers, intelliSenseEngine, p, v2)} :
           /\ providers' = r.providers
           /\ call' = [NoCall EXCEPT !.op = "add", !.p = p, !.ver = v2,
                                     !.ret = r.ret, !.log = r.log]
    /\ UNCHANGED intelliSenseEngine
    /\ obs' = NoObs("register")
    /\ UNCHANGED <<platform, propertiesFile, configurationJson, currentConfigurationIndex,
                   configurationIncomplete, compilerDefaults, vcpkg,
                   compileCommandFileWatchers, file, mtimeNewer, settings, edit>>

(***************************************************************************)
(* Configuration store: commands                                           *)
(***************************************************************************)
\* handleConfigurationEditCommand(onSuccess) up to its first asynchronous call
handleConfigurationEditCommand(cmd, arg) ==
    /\ edit.pc = "idle"
    /\ edit.count < MaxEdits
    /\ edit' = [pc |-> IF propertiesFile /\ file.k # "absent" THEN "open" ELSE "mkdir",
                cmd |-> cmd, arg |-> arg, text |-> Absent, count |-> edit.count + 1]

\* select(index)
SelectStoresSentinel(index) ==
    /\ Commit("select", [Cur EXCEPT !.idx = index, !.selected = <<index>>])
    /\ UNCHANGED edit
Select(index) ==
    IF index = Len(Configurations(Cur))
    THEN /\ handleConfigurationEditCommand("select", "")
         /\ Commit("select", Cur)
    ELSE /\ Commit("select", [Cur EXCEPT !.idx = index, !.selected = <<index>>])
         /\ UNCHANGED edit

AddToIncludePathCommand ==
    /\ handleConfigurationEditCommand("addToIncludePath", "")
    /\ Commit("addToIncludePathCommand", Cur)

SetCompileCommands ==
    /\ handleConfigurationEditCommand("setCompileCommands", "")
    /\ Commit("setCompileCommands", Cur)

\* updateCustomConfigurationProvider(providerId)
UpdateCustomConfigurationProvider(providerId) ==
    IF propertiesFile
    THEN /\ handleConfigurationEditCommand("updateCustomConfigurationProvider", providerId)
         /\ Commit("updateCustomConfigurationProvider", Cur)
    ELSE LET s1 == [Cur EXCEPT !.settings.defaultConfigurationProvider =
                                   IF providerId # "" THEN Str(Lit(providerId)) ELSE Null]
             s2 == IF InRange(s1)
                   THEN [s1 EXCEPT !.configurationJson.configurations.v[s1.idx + 1]
                                       .configurationProvider =
                                       IF providerId # "" THEN Str(Lit(providerId))
                                       ELSE Str(<<>>)]
                   ELSE Throw(s1)
         IN  /\ Commit("updateCustomConfigurationProvider", s2)
             /\ UNCHANGED edit

\* the edits of the three commands, made on the current configuration
addToIncludePathInFront(c, path) ==
    LET inc == IF c.includePath.k = "undef" THEN Arr(<<DefaultToken>>) ELSE c.includePath
    IN  [c EXCEPT !.includePath = Arr(<<path>> \o inc.v)]
addToIncludePath(c, path) ==
    LET inc == IF c.includePath.k = "undef" THEN Arr(<<DefaultToken>>) ELSE c.includePath
    IN  [c EXCEPT !.includePath = Arr(Append(inc.v, path))]
setCompileCommands(c, path) == [c EXCEPT !.compileCommands = Str(path)]
updateCustomConfigurationProvider(c, providerId) ==
    [c EXCEPT !.configurationProvider =
        IF providerId # "" THEN Str(Lit(providerId)) ELSE Undef]
EditOf(cmd, arg, c) ==
    CASE cmd = "addToIncludePath" -> addToIncludePath(c, IncludeToAdd)
      [] cmd = "setCompileCommands" -> setCompileCommands(c, CompileCommandsPath)
      [] OTHER -> updateCustomConfigurationProvider(c, arg)

\* the onSuccess callback of a command: re-read, edit, write, reconcile;
\* select passes vscode.window.showTextDocument, which leaves the store alone
onSuccess(state, cmd, arg, reg, plat, in) ==
    IF cmd = "select" THEN state
    ELSE Then(parsePropertiesFile(state, reg, plat, in.writeFails, in.newer), LAMBDA s1 :
             IF s1.thrown THEN s1
             ELSE IF ~InRange(s1) \/ CurrentConfiguration(s1) = Null THEN Throw(s1)
             ELSE Then([s1 EXCEPT !.configurationJson.configurations.v[s1.idx + 1] =
                                      EditOf(cmd, arg, @)], LAMBDA s2 :
                      IF in.writeFails THEN Throw(s2)
                      ELSE handleConfigurationChange(
                               WriteFile(s2, Stringify(s2.configurationJson), in.newer),
                               reg, plat, in)))

\* fs.mkdir answers
MkdirDone(ok) ==
    /\ edit.pc = "mkdir"
    /\ edit' = IF ok THEN [edit EXCEPT !.pc = "untitled"] ELSE IdleEdit(edit.count)
    /\ Commit("mkdir", Cur)

\* the untitled document is open: synthesize the defaults and insert them
UntitledOpened(recursive) ==
    /\ edit.pc = "untitled"
    /\ \E s2 \in {applyDefaultIncludePathsAndFrameworks(
                      resetToDefaultSettings(Cur, TRUE, platform), platform, recursive)} :
       \E s3 \in {IF Truthy(s2.settings.defaultConfigurationProvider)
                  THEN [s2 EXCEPT
                          !.configurationJson =
                              MapConfigs(@, LAMBDA c :
                                  [c EXCEPT !.configurationProvider =
                                      s2.settings.defaultConfigurationProvider]),
                          !.settings.defaultConfigurationProvider = Null]
                  ELSE s2} :
           /\ Commit("untitledOpened", s3)
           /\ edit' = [edit EXCEPT !.pc = "saving",
                                   !.text = Stringify(s3.configurationJson)]

\* applyEdit and document.save() are through
Saved(ok) ==
    /\ edit.pc = "saving"
    /\ Commit("saved", [Cur EXCEPT !.propertiesFile = TRUE,
                                   !.file = IF ok THEN edit.text ELSE @,
                                   !.mtimeNewer = IF ok THEN TRUE ELSE @])
    /\ edit' = [edit EXCEPT !.pc = "reopen"]

\* openTextDocument(this.propertiesFile) resolves
EditOpened(in) ==
    /\ edit.pc \in {"open", "reopen"}
    /\ Commit(edit.cmd, onSuccess(Cur, edit.cmd, edit.arg, providers, platform, in))
    /\ edit' = IdleEdit(edit.count)

\* openTextDocument(this.propertiesFile) rejects: there is no such file
EditOpenRejected ==
    /\ edit.pc \in {"open", "reopen"}
    /\ file.k = "absent"
    /\ Commit("openRejected", Cur)
    /\ edit' = IdleEdit(edit.count)

(***************************************************************************)
(* Specifications                                                          *)
(***************************************************************************)
\* every event and command, every text
Init == RegInit /\ Constructed(Platforms, ExternalTexts, SettingsProfiles)

Next ==
    \/ \E in \in Ins : OnDidCreate(in)
    \/ \E in \in Ins : OnDidDelete(in)
    \/ \E in \in Ins : OnDidChange(in)
    \/ \E in \in Ins : SetCompilerDefaults(in)
    \/ \E includes \in VcpkgScans, in \in Ins : VcpkgDone(includes, in)
    \/ \E sett \in SettingsProfiles, in \in Ins : OnDidChangeSettings(sett, in)
    \/ \E in \in Ins : CheckCppProperties(in)
    \/ \E text \in ExternalTexts : ExternalWrite(text)
    \/ \E p \in StoreProviders : RegisterProvider(p)
    \/ \E index \in SelectIndexes : Select(index)
    \/ AddToIncludePathCommand
    \/ SetCompileCommands
    \/ \E providerId \in ProviderIds : UpdateCustomConfigurationProvider(providerId)
    \/ \E ok \in BOOLEAN : MkdirDone(ok)
    \/ \E recursive \in BOOLEAN : UntitledOpened(recursive)
    \/ \E ok \in BOOLEAN : Saved(ok)
    \/ \E in \in Ins : EditOpened(in)
    \/ EditOpenRejected

Spec == Init /\ [][Next]_vars

\* the events of one workspace folder and the selection: the watcher, the
\* fallback poll, the settings, the compiler defaults, the include scan
EventTexts == {Absent, Garbage, Text(DocV4)}
EventsInit == RegInit /\ Constructed({"win32"}, EventTexts, {NoSettings})

EventsNext ==
    \/ \E in \in Ins : OnDidCreate(in)
    \/ \E in \in Ins : OnDidDelete(in)
    \/ \E in \in Ins : OnDidChange(in)
    \/ \E in \in Ins : SetCompilerDefaults(in)
    \/ \E includes \in VcpkgScans, in \in Ins : VcpkgDone(includes, in)
    \/ \E sett \in {NoSettings}, in \in Ins : OnDidChangeSettings(sett, in)
    \/ \E in \in Ins : CheckCppProperties(in)
    \/ \E text \in EventTexts : ExternalWrite(text)
    \/ \E index \in SelectIndexes : Select(index)
    \/ \E ok \in BOOLEAN : MkdirDone(ok)
    \/ \E recursive \in BOOLEAN : UntitledOpened(recursive)
    \/ \E ok \in BOOLEAN : Saved(ok)
    \/ \E in \in Ins : EditOpened(in)
    \/ EditOpenRejected

SpecEvents == EventsInit /\ [][EventsNext]_vars

\* the callers of parsePropertiesFile: the watcher's create and change events,
\* the compiler defaults, the settings, the three edit commands, over a file that
\* anything can replace
CallerTexts == FailingTexts \cup {EmptyText, Text(DocV4)}
CallersInit == RegInit /\ Constructed({"linux"}, CallerTexts, {NoSettings})

CallersNext ==
    \/ \E in \in Ins : OnDidCreate(in)
    \/ \E in \in Ins : OnDidChange(in)
    \/ \E in \in Ins : SetCompilerDefaults(in)
    \/ \E sett \in {NoSettings}, in \in Ins : OnDidChangeSettings(sett, in)
    \/ \E text \in CallerTexts : ExternalWrite(text)
    \/ AddToIncludePathCommand
    \/ SetCompileCommands
    \/ \E providerId \in ProviderIds : UpdateCustomConfigurationProvider(providerId)
    \/ \E ok \in BOOLEAN : MkdirDone(ok)
    \/ \E recursive \in BOOLEAN : UntitledOpened(recursive)
    \/ \E ok \in BOOLEAN : Saved(ok)
    \/ \E in \in Ins : EditOpened(in)
    \/ EditOpenRejected

SpecCallers == CallersInit /\ [][CallersNext]_vars

\* parsing on its own: documents of every version and one of three
\* configurations, two of them of one name; a provider that registers, compiler
\* defaults that arrive, the watcher that answers every write
ParseTexts ==
    OldTexts \cup {Text(DocV2Frameworks), Text(DocNullEntry), Text(DocNoList),
                    Text(DocV4), EmptyText, Garbage,
                    Text(Json(Arr(<<NamedConfig("Custom"), NamedConfig("Linux"),
                                    NamedConfig("Custom")>>),
                              Undef, Num(configVersion)))}
ParseInit == RegInit /\ Constructed(Platforms, ParseTexts, SettingsProfiles)

ParseNext ==
    \/ \E in \in Ins : OnDidChange(in)
    \/ \E in \in Ins : SetCompilerDefaults(in)
    \/ \E text \in ParseTexts : ExternalWrite(text)
    \/ \E p \in StoreProviders : RegisterProvider(p)

SpecParse == ParseInit /\ [][ParseNext]_vars

\* addToIncludePath in a folder without c_cpp_properties.json: folder, untitled
\* document, save, reopen, edit; node and VS Code call every pending callback
AddInit ==
    /\ RegInit
    /\ Constructed(Platforms, {Absent},
                   SettingsProfiles \cup
                   {[UserSettings EXCEPT
                        !.defaultDefines = Arr(<<Lit("NDEBUG")>>),
                        !.defaultMacFrameworkPath = Arr(<<Lit("/my/Frameworks")>>),
                        !.defaultWindowsSdkVersion = Str(Lit("8.1")),
                        !.defaultCStandard = Str(Lit("c99")),
                        !.defaultCppStandard = Str(Lit("c++11")),
                        !.defaultIntelliSenseMode = Str(Lit("clang-x64"))]})

AddNext ==
    \/ AddToIncludePathCommand
    \/ \E ok \in BOOLEAN : MkdirDone(ok)
    \/ \E recursive \in BOOLEAN : UntitledOpened(recursive)
    \/ \E ok \in BOOLEAN : Saved(ok)
    \/ \E in \in Ins : EditOpened(in)
    \/ EditOpenRejected
    \/ \E in \in Ins : SetCompilerDefaults(in)
    \/ \E includes \in VcpkgScans, in \in Ins : VcpkgDone(includes, in)

SpecAdd ==
    /\ AddInit /\ [][AddNext]_vars
    /\ WF_vars(\E ok \in BOOLEAN : MkdirDone(ok))
    /\ WF_vars(\E recursive \in BOOLEAN : UntitledOpened(recursive))
    /\ WF_vars(\E ok \in BOOLEAN : Saved(ok))
    /\ WF_vars((\E in \in Ins : EditOpened(in)) \/ EditOpenRejected)

\* a folder without c_cpp_properties.json: selections, the provider command, the
\* settings, the compiler defaults, the include scan, and the edit path once a
\* command has started it
NoFileInit == RegInit /\ Constructed({"linux"}, {Absent}, SettingsProfiles)

NoFileNext ==
    \/ \E index \in SelectIndexes : Select(index)
    \/ \E providerId \in ProviderIds : UpdateCustomConfigurationProvider(providerId)
    \/ \E in \in Ins : SetCompilerDefaults(in)
    \/ \E includes \in VcpkgScans, in \in Ins : VcpkgDone(includes, in)
    \/ \E sett \in SettingsProfiles, in \in Ins : OnDidChangeSettings(sett, in)
    \/ \E ok \in BOOLEAN : MkdirDone(ok)
    \/ \E recursive \in BOOLEAN : UntitledOpened(recursive)
    \/ \E ok \in BOOLEAN : Saved(ok)
    \/ \E in \in Ins : EditOpened(in)
    \/ EditOpenRejected

SpecNoFile == NoFileInit /\ [][NoFileNext]_vars

\* the same folder with a language server that reports the compiler defaults
\* and an include scan whose promise settles
SpecNoFileFair ==
    /\ NoFileInit /\ [][NoFileNext]_vars
    /\ WF_vars(\E in \in Ins : SetCompilerDefaults(in))
    /\ WF_vars(\E includes \in VcpkgScans, in \in Ins : VcpkgDone(includes, in))

\* the registry on its own, beside a store that is left alone
RegStoreInit ==
    /\ RegInit
    /\ \E r \in {Construct("linux", -1, Absent, NoSettings, In(FALSE, FALSE, FALSE, 0))} :
           StoreIs("linux", r, IdleEdit(0), Obs("constructor", r))

RegNext ==
    \/ \E p \in ProviderObjs, ver \in Versions : Add(p, ver)
    \/ \E p \in ProviderObjs : Remove(p)
    \/ \E id \in IdStrings : Get(id)
    \/ \E p \in ProviderObjs : GetByProvider(p)
    \/ \E id \in IdStrings : CheckId(id)
    \/ \E id \in IdStrings, b \in BOOLEAN : SetReady(id, b)
    \/ \E e \in {"Default", "Disabled"} : SetEngine(e)

SpecReg == RegStoreInit /\ [][RegNext]_vars

(***************************************************************************)
(* Claims about parsing and reconciliation                                 *)
(***************************************************************************)
Failed(o) == { i \in 1..Len(o.parses) : o.parses[i].res = "failed" }
Parsed(o) == { i \in 1..Len(o.parses) : o.parses[i].res = "ok" }

\* C1: a parsePropertiesFile that fails, in whatever handler it runs, throws on to
\* that handler, which ends there; document, index, incomplete flag and file are
\* what they were before the call and before the handler, and nothing is written
C1_FailedParseKeepsState ==
    [][\A i \in Failed(obs') :
           /\ obs'.parses[i].rethrown /\ obs'.thrown
           /\ obs'.parses[i].kept
           /\ ~obs'.parses[i].written /\ obs'.fileWrites = 0
           /\ configurationJson' = configurationJson
           /\ currentConfigurationIndex' = currentConfigurationIndex
           /\ configurationIncomplete' = configurationIncomplete
           /\ file' = file]_vars

\* an edit command found the file gone when it came to read it: the error went to
\* the caller and the document parsed before is still there
C1_Witness ==
    /\ obs.op \in {"addToIncludePath", "setCompileCommands",
                   "updateCustomConfigurationProvider"}
    /\ Failed(obs) = {1} /\ obs.thrown
    /\ file = Absent /\ propertiesFile
    /\ configurationJson.env.k # "undef"

\* C2: after every handleConfigurationChange that ran to its end the index lies
\* in [0, len), len the length of the in-memory list, with or without a file
C2_IndexInRangeAfterReconciliation ==
    obs.reconciled =>
        /\ currentConfigurationIndex >= 0
        /\ currentConfigurationIndex < Len(configurationJson.configurations.v)

\* what the claim gives as the reasons to rewrite the text read
NeedsRewrite(text, reg) ==
    \/ JSONparse(text).version # Num(configVersion)
    \/ \E i \in 1..Len(JSONparse(text).configurations.v) :
           checkIdOf(reg, JSONparse(text).configurations.v[i].configurationProvider)
               # JSONparse(text).configurations.v[i].configurationProvider

\* C3: a parse that succeeds writes the file if and only if the version on disk
\* is not 4 or checkId corrected a configurationProvider; the file changes only
\* when that write goes through
C3_RewriteIffDirty ==
    [][\A i \in Parsed(obs') :
           /\ obs'.parses[i].wrote <=> NeedsRewrite(file, providers)
           /\ obs'.parses[i].written
                  <=> (obs'.parses[i].wrote /\ ~obs'.parses[i].writeFailed)
           /\ ~obs'.parses[i].written => file' = file]_vars

\* a version-4 document was rewritten for the provider id alone
C3_Witness ==
    /\ Parsed(obs) = {1}
    /\ obs.parses[1].from = Num(configVersion)
    /\ obs.parses[1].wrote /\ obs.parses[1].written
    /\ file.k = "json"
    /\ JSONparse(file).configurations.v[2].configurationProvider = Str(Lit("ext.foo"))

\* the last handler migrated a document of version undefined, 2 or 3 and wrote it
MigratedAndWritten(o) ==
    /\ Parsed(o) = {1} /\ Len(o.parses) = 1
    /\ o.parses[1].from \in {Undef, Num(2), Num(3)}
    /\ o.parses[1].written

\* C4: once a parse has migrated and written the file, the change event that
\* follows parses again to the same document, index and flag and writes nothing
C4_MigrationConverges ==
    [][(MigratedAndWritten(obs) /\ obs'.op = "onDidChange") =>
           /\ Parsed(obs') = {1} /\ Len(obs'.parses) = 1
           /\ obs'.parses[1].from = Num(configVersion)
           /\ ~obs'.parses[1].wrote /\ obs'.fileWrites = 0
           /\ file' = file
           /\ obs'.parses[1].doc = obs.parses[1].doc
           /\ currentConfigurationIndex' = currentConfigurationIndex
           /\ configurationIncomplete' = configurationIncomplete]_vars

\* a file that a migration wrote (version 4, the Mac frameworks injected) has
\* been parsed again without a write
C4_Witness ==
    /\ obs.op = "onDidChange" /\ Parsed(obs) = {1}
    /\ obs.parses[1].from = Num(configVersion) /\ ~obs.parses[1].wrote
    /\ file.k = "json"
    /\ JSONparse(file).configurations.v[1].name = "Mac"
    /\ JSONparse(file).configurations.v[1].macFrameworkPath = MacFrameworks

(***************************************************************************)
(* Claims about the merge, the migrations and the commands                 *)
(***************************************************************************)
\* the lists of a list of lists, one after the other
RECURSIVE Flatten(_)
Flatten(lists) ==
    IF lists = <<>> THEN <<>> ELSE Head(lists) \o Flatten(Tail(lists))

\* the entries of a list once each is variable-resolved and split at ";"
ResolvedEntries(list, env) ==
    Flatten([i \in 1..Len(list) |-> SplitSemi(resolveVariablesUtil(Str(list[i]), env).v)])

\* what C13 says a list property is after the merge
ClaimedList(property, defaultValue, env) ==
    IF property.k = "undef"
    THEN IF defaultValue.k = "arr"
         THEN Arr(Flatten([i \in 1..Len(ResolvedEntries(defaultValue.v, env)) |->
                  IF ResolvedEntries(defaultValue.v, env)[i] = DefaultToken THEN <<>>
                  ELSE <<ResolvedEntries(defaultValue.v, env)[i]>>]))
         ELSE property
    ELSE Arr(Flatten([i \in 1..Len(ResolvedEntries(property.v, env)) |->
             IF ResolvedEntries(property.v, env)[i] = DefaultToken
             THEN IF defaultValue.k = "arr" THEN defaultValue.v ELSE <<>>
             ELSE <<ResolvedEntries(property.v, env)[i]>>]))

\* the last handler parsed the file and reconciled
ParsedAndReconciled(o) ==
    o.reconciled /\ Len(o.parses) = 1 /\ o.parses[1].res = "ok"

\* C13: after a reconciliation every list property of every configuration is the
\* parsed list with each ${default} entry replaced in place by the settings-level
\* default sequence (by nothing when unset), the other entries in their order; an
\* absent list property is the settings-level default sequence
C13_ListMerge ==
    [][ParsedAndReconciled(obs') =>
        \A i \in 1..Len(configurationJson'.configurations.v) :
            \E pre \in {obs'.parses[1].doc.configurations.v[i]},
               post \in {configurationJson'.configurations.v[i]},
               env \in {ExtendedEnvironment([configurationJson |-> obs'.parses[1].doc])} :
                /\ post.includePath
                       = ClaimedList(pre.includePath, settings'.defaultIncludePath, env)
                /\ post.defines
                       = ClaimedList(pre.defines, settings'.defaultDefines, env)
                /\ post.macFrameworkPath
                       = ClaimedList(pre.macFrameworkPath,
                                     settings'.defaultMacFrameworkPath, env)
                /\ post.forcedInclude
                       = ClaimedList(pre.forcedInclude, settings'.defaultForcedInclude, env)
       ]_vars

\* ["${default}", "${myInc}"] with the default ["/opt/inc"] and myInc = /a;/b has
\* become ["/opt/inc", "/a", "/b"], and an absent include path ["/opt/inc"]
C13_Witness ==
    /\ ParsedAndReconciled(obs)
    /\ obs.parses[1].doc.configurations.v[1].includePath
           = Arr(<<DefaultToken, Var("myInc")>>)
    /\ obs.parses[1].doc.configurations.v[2].includePath = Undef
    /\ configurationJson.configurations.v[1].includePath
           = Arr(<<Lit("/opt/inc"), Lit("/a"), Lit("/b")>>)
    /\ configurationJson.configurations.v[2].includePath = Arr(<<Lit("/opt/inc")>>)

\* C14: a parse that starts below version 3 gives exactly the two system
\* framework directories to every configuration without macFrameworkPath that is
\* named "Mac" or, on a Mac host only, named none of "Mac", "Win32", "Linux";
\* every other configuration keeps the macFrameworkPath it was read with
C14_MacFrameworksOnMigration ==
    [][\A i \in Parsed(obs') :
           obs'.parses[i].from \in {Undef, Num(2)} =>
               \A c \in 1..Len(file.v.configurations.v) :
                   \E pre \in {file.v.configurations.v[c]},
                      post \in {obs'.parses[i].doc.configurations.v[c]} :
                       post.macFrameworkPath =
                           IF /\ pre.macFrameworkPath = Undef
                              /\ \/ pre.name = "Mac"
                                 \/ /\ platform = "darwin"
                                    /\ pre.name \notin {"Mac", "Win32", "Linux"}
                           THEN Arr(<<Lit("/System/Library/Frameworks"),
                                      Lit("/Library/Frameworks")>>)
                           ELSE pre.macFrameworkPath
       ]_vars

\* off the Mac, a version 2 document with "Mac" and "Custom" has been parsed:
\* "Mac" has the frameworks, "Custom" has none
C14_Witness ==
    /\ platform # "darwin" /\ obs.op = "onDidChange"
    /\ Parsed(obs) = {1} /\ obs.parses[1].from = Num(2)
    /\ obs.parses[1].doc.configurations.v[1].name = "Mac"
    /\ obs.parses[1].doc.configurations.v[1].macFrameworkPath
           = Arr(<<Lit("/System/Library/Frameworks"), Lit("/Library/Frameworks")>>)
    /\ obs.parses[1].doc.configurations.v[2].name = "Custom"
    /\ obs.parses[1].doc.configurations.v[2].macFrameworkPath = Undef

\* addToIncludePath has been called and found no document on disk
AddStarted == edit.cmd = "addToIncludePath" /\ edit.pc = "mkdir" /\ file.k = "absent"

\* the file holds one configuration, the host platform's, whose include list
\* ends with the path, and the store has a properties file
AddOnDisk ==
    /\ propertiesFile
    /\ file.k = "json"
    /\ Len(file.v.configurations.v) = 1
    /\ file.v.configurations.v[1].name = PlatformName(platform)
    /\ file.v.configurations.v[1].includePath.k = "arr"
    /\ \E inc \in {file.v.configurations.v[1].includePath.v} :
           Len(inc) > 0 /\ inc[Len(inc)] = IncludeToAdd

\* a document after the per-property merge under the settings of the moment
MergedUnder(doc, sett) ==
    MapConfigs(doc, LAMBDA c :
        MergeConfiguration(c, sett, ExtendedEnvironment([configurationJson |-> doc])))
Merged(doc) == MergedUnder(doc, settings)

\* creating the folder, saving the new document or writing the edited one failed
AddIOFailed ==
    \/ obs.op = "mkdir" /\ edit.pc = "idle"
    \/ obs.op = "saved" /\ file.k = "absent"
    \/ obs.op = "addToIncludePath" /\ obs.thrown

EditCallback ==
    /\ edit.pc \in {"open", "reopen"} /\ edit'.pc = "idle"
    /\ edit.cmd \in {"addToIncludePath", "setCompileCommands",
                     "updateCustomConfigurationProvider"}
    /\ obs'.op = edit.cmd

\* the configuration with the field changed that the command is to change
RequestedEdit(cmd, arg, c) ==
    IF cmd = "addToIncludePath"
    THEN [c EXCEPT !.includePath =
             Arr((IF @ = Undef THEN <<DefaultToken>> ELSE @.v) \o <<IncludeToAdd>>)]
    ELSE IF cmd = "setCompileCommands"
    THEN [c EXCEPT !.compileCommands = Str(CompileCommandsPath)]
    ELSE [c EXCEPT !.configurationProvider = IF arg = "" THEN Undef ELSE Str(Lit(arg))]

\* C16: whenever the callback of addToIncludePath, setCompileCommands or
\* updateCustomConfigurationProvider writes the file, it has just parsed the file
\* and what it writes is the parsed document with only the requested field of the
\* current configuration changed, whatever the file held
C16_WritesRereadDocument ==
    [][(EditCallback /\ ~obs'.thrown) =>
           /\ obs'.parses[1].res = "ok"
           /\ file' = Text([obs'.parses[1].doc EXCEPT
                               !.configurations.v[currentConfigurationIndex' + 1] =
                                   RequestedEdit(edit.cmd, edit.arg, @)])
       ]_vars

\* updateCustomConfigurationProvider is called in this step with no properties file
ProviderCallNoFile == obs'.op = "updateCustomConfigurationProvider" /\ ~propertiesFile

\* C17: updateCustomConfigurationProvider(id) with no properties file writes no
\* file, starts no edit, parses and reconciles nothing and leaves the store without
\* a properties file; the setting becomes id (null when id is empty), the current
\* configuration's provider becomes id, nothing else changes and nothing is thrown
C17_ProviderToSettingsWhenNoFile ==
    [][ProviderCallNoFile =>
           /\ file' = file /\ ~propertiesFile' /\ edit' = edit
           /\ obs'.fileWrites = 0 /\ obs'.parses = <<>> /\ ~obs'.reconciled
           /\ obs'.changed = <<>> /\ obs'.selected = <<>>
           /\ ~obs'.thrown
           /\ \E id \in ProviderIds :
                  /\ settings' = [settings EXCEPT !.defaultConfigurationProvider =
                                      IF id = "" THEN Null ELSE Str(Lit(id))]
                  /\ currentConfigurationIndex \in 0..(Len(Configurations(Cur)) - 1)
                  /\ configurationJson' =
                         [configurationJson EXCEPT
                             !.configurations.v[currentConfigurationIndex + 1]
                                 .configurationProvider =
                                     IF id = "" THEN Str(<<>>) ELSE Str(Lit(id))]
           /\ UNCHANGED <<currentConfigurationIndex, configurationIncomplete,
                          compilerDefaults, vcpkg, compileCommandFileWatchers,
                          mtimeNewer>>
       ]_vars

\* C18: select(index) with index the length of the configuration list leaves the
\* index, notifies nobody and starts the edit path (opening the file when there is
\* one, creating it otherwise); with any other index it stores index and notifies
\* once, with index; the configuration list is what it was either way
C18_SelectOrEdit ==
    [][\A index \in SelectIndexes :
           Select(index) =>
               /\ configurationJson' = configurationJson
               /\ IF index = Len(configurationJson.configurations.v)
                  THEN /\ currentConfigurationIndex' = currentConfigurationIndex
                       /\ obs'.selected = <<>>
                       /\ edit.pc = "idle" /\ edit'.cmd = "select"
                       /\ edit'.pc = IF propertiesFile /\ file.k # "absent"
                                     THEN "open" ELSE "mkdir"
                  ELSE /\ currentConfigurationIndex' = index
                       /\ obs'.selected = <<index>>
                       /\ edit' = edit
       ]_vars

\* select(2) on a list of two configurations has started the edit path
C18_Witness ==
    /\ obs.op = "select" /\ obs.selected = <<>>
    /\ Len(configurationJson.configurations.v) = 2
    /\ edit.cmd = "select" /\ edit.pc = "open"
    /\ currentConfigurationIndex # 2

\* C19: a write of the configuration file that fails throws nothing on: a parse
\* whose write-back fails ends well with the repaired document in memory and its
\* caller goes on, and the callback of an edit command whose parse did not fail
\* ends without an exception, after the reconciliation that follows its write
C19_WriteFailureAbsorbed ==
    [][/\ \A i \in Parsed(obs') :
              obs'.parses[i].writeFailed =>
                  /\ ~obs'.parses[i].rethrown
                  /\ obs'.parses[i].doc.version = Num(configVersion)
       /\ ((\E i \in Parsed(obs') : obs'.parses[i].writeFailed) /\ Failed(obs') = {})
              => ~obs'.thrown
       /\ (EditCallback /\ Failed(obs') = {}) => (~obs'.thrown /\ obs'.reconciled)
       ]_vars

\* C20: the document in memory has version 4 in every state; every parse that
\* succeeded left version 4, and warned of an unknown version exactly when the
\* version it read was none of undefined, 2, 3, 4
C20_VersionIsCurrent ==
    /\ configurationJson.version = Num(configVersion)
    /\ \A i \in Parsed(obs) :
           /\ obs.parses[i].doc.version = Num(configVersion)
           /\ obs.parses[i].unknownVersion
                  <=> obs.parses[i].from \notin {Undef, Num(2), Num(3), Num(4)}

\* C21: a parse that succeeds leaves an environment without workspaceRoot,
\* workspaceFolder, workspaceFolderBasename and default, with every other key of
\* the file and its value; the environment that variables are resolved in has no
\* reserved key but the system's workspaceFolderBasename
C21_ReservedKeysStripped ==
    [][\A i \in Parsed(obs') :
           i = 1 =>
               \E read \in {file.v.env}, kept \in {obs'.parses[1].doc.env} :
                   /\ read.k = "obj" =>
                          /\ kept.k = "obj"
                          /\ DOMAIN kept.v
                                 = DOMAIN read.v \ {"workspaceRoot", "workspaceFolder",
                                                    "workspaceFolderBasename", "default"}
                          /\ \A key \in DOMAIN kept.v : kept.v[key] = read.v[key]
                   /\ read.k # "obj" => kept = read
                   /\ \E env \in {ExtendedEnvironment(
                                      [configurationJson |-> obs'.parses[1].doc])} :
                          /\ DOMAIN env \cap {"workspaceRoot", "workspaceFolder", "default"}
                                 = {}
                          /\ env["workspaceFolderBasename"] = Str(Lit("ws"))
       ]_vars

\* a file with env myInc and workspaceFolder has been parsed: myInc is there,
\* workspaceFolder is not
C21_Witness ==
    /\ obs.op = "onDidChange" /\ Parsed(obs) = {1}
    /\ obs.parses[1].doc.env.k = "obj"
    /\ DOMAIN obs.parses[1].doc.env.v = {"myInc"}
    /\ file.k = "json" /\ file.v.env.k = "obj"
    /\ "workspaceFolder" \in DOMAIN file.v.env.v

\* C22: the document in memory holds a list of at least one configuration in
\* every state, exactly one when there is no properties file, and no parse leaves
\* a document without configurations
C22_AtLeastOneConfiguration ==
    /\ configurationJson.configurations.k = "arr"
    /\ Len(configurationJson.configurations.v) >= 1
    /\ ~propertiesFile => Len(configurationJson.configurations.v) = 1
    /\ \A i \in Parsed(obs) : Len(obs.parses[i].doc.configurations.v) >= 1

(***************************************************************************)
(* Claims about the events, the defaulting pass and the watches            *)
(***************************************************************************)

\* the step is the handler of a change of the settings
SettingsEvent == obs'.op = "onDidChangeSettings"
\* compiler includes and frameworks are recorded and the vcpkg scan is over
DefaultsArrived ==
    /\ Truthy(compilerDefaults.includes) /\ Truthy(compilerDefaults.frameworks)
    /\ vcpkg.ready

\* C23: a change of the settings with no properties file leaves the platform's
\* default document (one entry, index 0, incomplete until the defaults have
\* arrived) reconciled under the new settings; with a properties file and the
\* incomplete flag clear it reads the file again and reconciles what it read
\* under the new settings; with a properties file and the flag set it changes
\* nothing in the store and notifies nobody
C23_SettingsChanged ==
    [][SettingsEvent =>
        /\ ~propertiesFile =>
            /\ ~propertiesFile' /\ obs'.parses = <<>>
            /\ ~obs'.thrown /\ obs'.reconciled
            /\ currentConfigurationIndex' = 0
            /\ Len(configurationJson'.configurations.v) = 1
            /\ configurationJson'.configurations.v[1].name = PlatformName(platform)
            /\ configurationIncomplete' = ~DefaultsArrived
            /\ obs'.defaulted = DefaultsArrived
            /\ ~DefaultsArrived =>
                   configurationJson' = MergedUnder(getDefaultCppProperties(platform), settings')
        /\ (propertiesFile /\ ~configurationIncomplete) =>
            /\ Len(obs'.parses) = 1
            /\ obs'.reconciled \/ obs'.thrown
            /\ ParsedAndReconciled(obs') =>
                   configurationJson' = MergedUnder(obs'.parses[1].doc, settings')
        /\ (propertiesFile /\ configurationIncomplete) =>
            /\ obs'.parses = <<>> /\ obs'.changed = <<>> /\ obs'.selected = <<>>
            /\ ~obs'.reconciled /\ ~obs'.defaulted /\ obs'.fileWrites = 0
            /\ UNCHANGED <<propertiesFile, configurationJson, currentConfigurationIndex,
                           configurationIncomplete, compilerDefaults, vcpkg,
                           compileCommandFileWatchers, file>>
       ]_vars

\* the settings became the user's while a properties file was loaded and the flag
\* clear: the file was read again and reconciled
C23_Witness ==
    /\ obs.op = "onDidChangeSettings" /\ propertiesFile /\ ParsedAndReconciled(obs)
    /\ settings = UserSettings

\* the step is the handler of the deletion of the properties file
DeleteEvent == obs'.op = "onDidDelete"
\* what a store that never held a document is left with by the defaulting pass
\* and the merge over the platform's default document
FreshDefaults(in) ==
    handleConfigurationChange(
        resetToDefaultSettings([Cur EXCEPT !.propertiesFile = FALSE,
                                           !.configurationJson = Null, !.idx = -1,
                                           !.incomplete = TRUE, !.watchers = <<>>],
                               TRUE, platform),
        providers, platform, in)

\* C24: after the deletion event the store has no properties file, the document
\* is the platform's one-entry default document as a store that never loaded a
\* file holds it (no env, nothing of the document before), the index is 0, no file
\* is read, the defaulting pass runs when the defaults have arrived (the flag is
\* set until then) and the reconciliation runs
C24_FileDeleted ==
    [][DeleteEvent =>
        /\ ~propertiesFile' /\ obs'.parses = <<>>
        /\ currentConfigurationIndex' = 0
        /\ Len(configurationJson'.configurations.v) = 1
        /\ configurationJson'.configurations.v[1].name = PlatformName(platform)
        /\ configurationJson'.env = Undef
        /\ \E in \in Ins :
               /\ configurationJson' = FreshDefaults(in).configurationJson
               /\ compileCommandFileWatchers' = FreshDefaults(in).watchers
        /\ configurationIncomplete' = ~DefaultsArrived
        /\ obs'.defaulted = DefaultsArrived
        /\ ~obs'.thrown /\ obs'.reconciled
        /\ obs'.changed = IF DefaultsArrived
                          THEN <<configurationJson'.configurations.v>> ELSE <<>>
       ]_vars

\* the deletion event has run with the defaults there
C24_Witness ==
    /\ obs.op = "onDidDelete" /\ ~propertiesFile /\ obs.reconciled /\ obs.defaulted
    /\ ~configurationIncomplete /\ currentConfigurationIndex = 0

\* C25: no handler, the constructor included, has notified of changed
\* configurations when it ends with the incomplete flag set, and the list each
\* notification carried is the whole list in memory, which after a parse is the
\* parsed document merged under the settings, and with no file and no defaulting
\* the document held before, merged
C25_NotifiedWhenComplete ==
    /\ [](configurationIncomplete => obs.changed = <<>>)
    /\ [][obs'.changed # <<>> =>
           /\ ~configurationIncomplete'
           /\ ~obs'.thrown /\ obs'.reconciled
           /\ \A i \in 1..Len(obs'.changed) :
                  obs'.changed[i] = configurationJson'.configurations.v
           /\ ParsedAndReconciled(obs') =>
                  configurationJson' = MergedUnder(obs'.parses[1].doc, settings')
           /\ (/\ obs'.op \in {"CompilerDefaults", "buildVcpkgIncludePath"}
               /\ ~propertiesFile /\ ~obs'.defaulted) =>
                  configurationJson' = MergedUnder(configurationJson, settings')
          ]_vars

\* the compiler defaults arrived with no properties file: the defaulting pass ran
\* and the notification went out
C25_Witness ==
    /\ obs.op \in {"CompilerDefaults", "buildVcpkgIncludePath"} /\ ~propertiesFile
    /\ obs.defaulted /\ Len(obs.changed) = 1 /\ ~configurationIncomplete

\* the defaults arrive at a store without properties file and the defaulting
\* pass runs on the current configuration
DefaultingStep ==
    /\ obs'.op \in {"CompilerDefaults", "buildVcpkgIncludePath"}
    /\ obs'.defaulted /\ ~propertiesFile /\ InRange(Cur)
\* the current configuration with every default of the pass assigned that is
\* there on this platform
AllDefaultsAssigned(c, d, includes, recursive) ==
    [c EXCEPT
        !.includePath = Arr(<<IF recursive THEN Var("workspaceFolder") \o Lit("/**")
                              ELSE Var("workspaceFolder")>> \o includes),
        !.defines = IF platform = "win32"
                    THEN Arr(<<Lit("_DEBUG"), Lit("UNICODE"), Lit("_UNICODE")>>)
                    ELSE Arr(<<>>),
        !.macFrameworkPath = IF platform = "darwin" THEN d.frameworks ELSE @,
        !.windowsSdkVersion = IF platform = "win32" /\ Truthy(d.windowsSdkVersion)
                              THEN d.windowsSdkVersion ELSE @,
        !.compilerPath = IF Truthy(d.compilerPath) THEN d.compilerPath ELSE @,
        !.cStandard = IF Truthy(d.cStandard) THEN d.cStandard ELSE @,
        !.cppStandard = IF Truthy(d.cppStandard) THEN d.cppStandard ELSE @,
        !.intelliSenseMode = d.intelliSenseMode]

\* C26: when the defaulting pass runs, each of the eight properties of the
\* current configuration ends as the merge of the assigned default when its
\* setting is null, and as the merge of what the configuration held before the
\* pass when its setting has a value
C26_SettingsPrecedence ==
    [][DefaultingStep =>
        \E recursive \in BOOLEAN :
        \E env \in {ExtendedEnvironment(Cur)} :
        \E pre \in {CurrentConfiguration(Cur)} :
        \E base \in {MergeConfiguration(pre, settings', env)} :
        \E full \in {MergeConfiguration(
                         AllDefaultsAssigned(pre, compilerDefaults', vcpkg'.includes,
                                             recursive),
                         settings', env)} :
        \E post \in {configurationJson'.configurations.v[currentConfigurationIndex + 1]} :
            /\ post.includePath =
                   IF settings'.defaultIncludePath = Null
                   THEN full.includePath ELSE base.includePath
            /\ post.defines =
                   IF settings'.defaultDefines = Null
                   THEN full.defines ELSE base.defines
            /\ post.macFrameworkPath =
                   IF settings'.defaultMacFrameworkPath = Null
                   THEN full.macFrameworkPath ELSE base.macFrameworkPath
            /\ post.windowsSdkVersion =
                   IF settings'.defaultWindowsSdkVersion = Null
                   THEN full.windowsSdkVersion ELSE base.windowsSdkVersion
            /\ post.compilerPath =
                   IF settings'.defaultCompilerPath = Null
                   THEN full.compilerPath ELSE base.compilerPath
            /\ post.cStandard =
                   IF settings'.defaultCStandard = Null
                   THEN full.cStandard ELSE base.cStandard
            /\ post.cppStandard =
                   IF settings'.defaultCppStandard = Null
                   THEN full.cppStandard ELSE base.cppStandard
            /\ post.intelliSenseMode =
                   IF settings'.defaultIntelliSenseMode = Null
                   THEN full.intelliSenseMode ELSE base.intelliSenseMode
       ]_vars

\* the pass has run under settings that give a compiler path and no C standard:
\* the compiler path is the setting's, the C standard the detected one
C26_Witness ==
    /\ obs.op \in {"CompilerDefaults", "buildVcpkgIncludePath"} /\ obs.defaulted
    /\ ~propertiesFile /\ InRange(Cur)
    /\ settings = UserSettings
    /\ CurrentConfiguration(Cur).compilerPath = UserSettings.defaultCompilerPath
    /\ CurrentConfiguration(Cur).cStandard = compilerDefaults.cStandard

\* the platform's default document has been put in place in this step: by an
\* event that ends without properties file, or for the untitled document of an
\* edit command
SynthesizedInStep ==
    \/ /\ obs'.op \in {"onDidDelete", "onDidChangeSettings", "checkCppProperties"}
       /\ ~propertiesFile'
    \/ obs'.op = "untitledOpened"

\* C27: the defaulting pass runs only with the incomplete flag set (from before
\* the handler, or by the synthesis of defaults in it), compiler includes and
\* frameworks recorded and the vcpkg scan over, and leaves the flag clear; the
\* flag goes from clear to set only in a step that synthesizes the default
\* document; when defaults or scan arrive, no file is read and the pass does not
\* run, the document is at most merged again
C27_DefaultingOnce ==
    [][/\ obs'.defaulted =>
            /\ configurationIncomplete \/ SynthesizedInStep
            /\ Truthy(compilerDefaults'.includes) /\ Truthy(compilerDefaults'.frameworks)
            /\ vcpkg'.ready
            /\ ~configurationIncomplete'
       /\ (~configurationIncomplete /\ configurationIncomplete') =>
            /\ SynthesizedInStep
            /\ Len(configurationJson'.configurations.v) = 1
            /\ configurationJson'.configurations.v[1].name = PlatformName(platform)
       /\ (/\ obs'.op \in {"CompilerDefaults", "buildVcpkgIncludePath"}
           /\ ~obs'.defaulted /\ obs'.parses = <<>>) =>
            \/ configurationJson' = configurationJson
            \/ configurationJson' = MergedUnder(configurationJson, settings')
      ]_vars

\* the pass ran, the document was synthesized again and the pass ran on the new
\* document: the state after the deletion of the file with the defaults there
C27_Witness ==
    /\ obs.op = "onDidDelete" /\ obs.defaulted /\ ~configurationIncomplete
    /\ ~propertiesFile /\ Len(obs.changed) = 1

\* the step parsed a document of a version before 4, which updateToVersion4
\* has gone over
MigratedTo4 ==
    /\ Len(obs'.parses) = 1 /\ obs'.parses[1].res = "ok"
    /\ obs'.parses[1].from \in {Undef, Num(2), Num(3)}
    /\ file.k = "json"
\* the IntelliSense mode the claim gives a configuration by its name
ClaimedMode(nm) ==
    IF nm = "Linux" THEN "gcc-x64"
    ELSE IF nm = "Mac" THEN "clang-x64"
    ELSE IF nm = "Win32" THEN "msvc-x64"
    ELSE IF platform = "win32" THEN "msvc-x64"
    ELSE IF platform = "darwin" THEN "clang-x64"
    ELSE "gcc-x64"
\* the back-fill of one property: the detected value, when there is one, where
\* the property is missing and no setting stands for it
BackFilled(value, missing, setting, detected) ==
    IF missing /\ ~Truthy(setting) /\ Truthy(detected) THEN detected ELSE value
\* what the migration leaves of mode and compiler path of the i-th configuration
ModeAndCompilerBackFilled(i) ==
    \E pre \in {JSONparse(file).configurations.v[i]},
       post \in {obs'.parses[1].doc.configurations.v[i]} :
        /\ post.intelliSenseMode =
               BackFilled(pre.intelliSenseMode, pre.intelliSenseMode = Undef,
                          settings'.defaultIntelliSenseMode,
                          Str(Lit(ClaimedMode(pre.name))))
        /\ post.compilerPath =
               BackFilled(pre.compilerPath,
                          pre.compilerPath = Undef /\ ~Truthy(pre.compileCommands),
                          settings'.defaultCompilerPath, compilerDefaults'.compilerPath)

\* C28 as stated: the migration to version 4 gives each configuration a mode by
\* its name, the detected compiler path and the detected C and C++ standard where
\* the property is absent (and, for the compiler path, no compile commands are
\* set) and no setting stands for it, and leaves every property that is there
C28_BackFillWhenAbsent ==
    [][MigratedTo4 =>
        \A i \in 1..Len(JSONparse(file).configurations.v) :
            /\ ModeAndCompilerBackFilled(i)
            /\ \E pre \in {JSONparse(file).configurations.v[i]},
                  post \in {obs'.parses[1].doc.configurations.v[i]} :
                /\ post.cStandard =
                       BackFilled(pre.cStandard, pre.cStandard = Undef,
                                  settings'.defaultCStandard, compilerDefaults'.cStandard)
                /\ post.cppStandard =
                       BackFilled(pre.cppStandard, pre.cppStandard = Undef,
                                  settings'.defaultCppStandard,
                                  compilerDefaults'.cppStandard)
       ]_vars

\* C28: the same, the C and C++ standard being back-filled where they are absent
\* or falsy ("" and null included), and left where they have a non-empty value
C28_BackFillWhenAbsentOrEmpty ==
    [][MigratedTo4 =>
        \A i \in 1..Len(JSONparse(file).configurations.v) :
            /\ ModeAndCompilerBackFilled(i)
            /\ \E pre \in {JSONparse(file).configurations.v[i]},
                  post \in {obs'.parses[1].doc.configurations.v[i]} :
                /\ post.cStandard =
                       BackFilled(pre.cStandard, ~Truthy(pre.cStandard),
                                  settings'.defaultCStandard, compilerDefaults'.cStandard)
                /\ post.cppStandard =
                       BackFilled(pre.cppStandard, ~Truthy(pre.cppStandard),
                                  settings'.defaultCppStandard,
                                  compilerDefaults'.cppStandard)
       ]_vars

\* a version 2 document was migrated with the compiler defaults there and no
\* settings: "Mac" got its mode and the detected compiler path, its C++ standard
\* "" became the detected one; "Linux" kept its mode and, having compile commands,
\* got no compiler path
C28_Witness ==
    /\ Len(obs.parses) = 1 /\ obs.parses[1].res = "ok" /\ obs.parses[1].from = Num(2)
    /\ settings = NoSettings
    /\ \E cs \in {obs.parses[1].doc.configurations.v} :
        /\ Len(cs) = 2
        /\ cs[1].intelliSenseMode = Str(Lit("clang-x64"))
        /\ cs[1].compilerPath = compilerDefaults.compilerPath
        /\ Truthy(cs[1].cppStandard)
        /\ cs[2].intelliSenseMode = Str(Lit("clang-x64"))
        /\ cs[2].compilerPath = Undef /\ Truthy(cs[2].compileCommands)

\* an entry that is ${workspaceRoot} or ${workspaceFolder}, alone or followed by
\* one of / \ /** \**
RootAloneOrWithSuffix(entry) ==
    \E root \in {Var("workspaceRoot"), Var("workspaceFolder")} :
        \/ entry = root
        \/ \E suffix \in {"/", "\\", "/**", "\\**"} : entry = root \o Lit(suffix)
\* the include path with ${workspaceFolder} at its end when no entry names the root
WithWorkspaceFolder(includePath) ==
    IF \E i \in 1..Len(includePath.v) : RootAloneOrWithSuffix(includePath.v[i])
    THEN includePath
    ELSE Arr(includePath.v \o <<Var("workspaceFolder")>>)
\* a configuration of the parsed document has a browse path of its own
ExplicitBrowsePath(c) == Truthy(c.browse) /\ Truthy(c.browse.path)

\* C29 as stated: after a parse and reconciliation a configuration without browse
\* path of its own, having an include path, has that include path as browse path,
\* with ${workspaceFolder} at the end exactly when no include entry names the
\* root; a configuration with a browse path of its own has it, merged
C29_BrowsePathFromIncludePath ==
    [][ParsedAndReconciled(obs') =>
        \A i \in 1..Len(configurationJson'.configurations.v) :
            \E pre \in {obs'.parses[1].doc.configurations.v[i]},
               post \in {configurationJson'.configurations.v[i]},
               env \in {ExtendedEnvironment([configurationJson |-> obs'.parses[1].doc])} :
                IF ExplicitBrowsePath(pre)
                THEN post.browse.path =
                         ClaimedList(pre.browse.path, settings'.defaultBrowsePath, env)
                ELSE Truthy(post.includePath) =>
                         post.browse.path = WithWorkspaceFolder(post.includePath)
       ]_vars

\* C29: the same, where the settings give no default browse path; where they do,
\* a configuration without browse path of its own has the setting's list as it
\* is; without include path and without setting it has no browse path
C29_BrowsePathSynthesis ==
    [][ParsedAndReconciled(obs') =>
        \A i \in 1..Len(configurationJson'.configurations.v) :
            \E pre \in {obs'.parses[1].doc.configurations.v[i]},
               post \in {configurationJson'.configurations.v[i]},
               env \in {ExtendedEnvironment([configurationJson |-> obs'.parses[1].doc])} :
                IF ExplicitBrowsePath(pre)
                THEN post.browse.path =
                         ClaimedList(pre.browse.path, settings'.defaultBrowsePath, env)
                ELSE IF Truthy(settings'.defaultBrowsePath)
                THEN post.browse.path = settings'.defaultBrowsePath
                ELSE IF Truthy(post.includePath)
                THEN post.browse.path = WithWorkspaceFolder(post.includePath)
                ELSE ~Truthy(post.browse.path)
       ]_vars

\* the version 2 document was parsed and reconciled without settings: the first
\* configuration's include path is ${workspaceRoot}/** and its browse path the
\* same list, the second's browse path is its own, merged
C29_Witness ==
    /\ ParsedAndReconciled(obs) /\ obs.parses[1].from = Num(2) /\ settings = NoSettings
    /\ \E cs \in {configurationJson.configurations.v} :
        /\ Len(cs) = 2
        /\ cs[1].includePath = Arr(<<Var("workspaceRoot") \o Lit("/**")>>)
        /\ cs[1].browse.path = cs[1].includePath
        /\ cs[2].includePath = Undef
        /\ cs[2].browse.path = Arr(<<Lit("/src")>>)

\* the compile-commands paths the configurations in memory name
ReferencedCompileCommands(json) ==
    { json.configurations.v[i].compileCommands.v :
        i \in { j \in 1..Len(json.configurations.v) :
                    Truthy(json.configurations.v[j].compileCommands) } }

\* C30: after every reconciliation no path is watched twice and every watched
\* path is named by a configuration; unless no watch at all could be opened, every
\* path a configuration names is watched
C30_OneWatchPerReferencedPath ==
    [][obs'.reconciled =>
        \E open \in {compileCommandFileWatchers'} :
            /\ \A i, j \in 1..Len(open) : open[i] = open[j] => i = j
            /\ { open[i] : i \in 1..Len(open) }
                   \subseteq ReferencedCompileCommands(configurationJson')
            /\ \/ open = <<>>
               \/ { open[i] : i \in 1..Len(open) }
                      = ReferencedCompileCommands(configurationJson')
       ]_vars

\* the step is the callback of the poll
PollStep == obs'.op = "checkCppProperties"
\* the step leaves the store and what the handler did as r has them
PollHasEffect(r) ==
    /\ propertiesFile' = r.propertiesFile
    /\ configurationJson' = r.configurationJson
    /\ currentConfigurationIndex' = r.idx
    /\ configurationIncomplete' = r.incomplete
    /\ compileCommandFileWatchers' = r.watchers
    /\ file' = r.file /\ mtimeNewer' = r.mtimeNewer
    /\ obs' = Obs("checkCppProperties", r)
\* what the watcher's handlers do in the state of the moment: onDidDelete, and
\* onDidCreate (which is onDidChange when propertiesFile is set already)
DeleteEffect(in) ==
    handleConfigurationChange(
        resetToDefaultSettings([Cur EXCEPT !.propertiesFile = FALSE], TRUE, platform),
        providers, platform, in)
CreateOrChangeEffect(in) ==
    handleConfigurationChange([Cur EXCEPT !.propertiesFile = TRUE],
                              providers, platform, in)

\* C31: the poll does what onDidDelete does when the file is gone and the store
\* has a properties file, what onDidCreate/onDidChange does when the file is
\* there with a time stamp after the last reconciliation, and nothing otherwise
C31_PollRecovers ==
    [][PollStep =>
        IF file.k = "absent" /\ propertiesFile
        THEN /\ ~propertiesFile'
             /\ \E in \in Ins : PollHasEffect(DeleteEffect(in))
        ELSE IF file.k # "absent" /\ mtimeNewer
        THEN /\ propertiesFile'
             /\ \E in \in Ins : PollHasEffect(CreateOrChangeEffect(in))
        ELSE /\ obs'.parses = <<>> /\ obs'.changed = <<>> /\ obs'.selected = <<>>
             /\ ~obs'.reconciled /\ ~obs'.defaulted /\ obs'.fileWrites = 0
             /\ ~obs'.thrown
             /\ UNCHANGED <<propertiesFile, configurationJson,
                            currentConfigurationIndex, configurationIncomplete,
                            compilerDefaults, vcpkg, compileCommandFileWatchers,
                            file, mtimeNewer, settings>>
       ]_vars

\* the poll found the file newer than the last reconciliation, read it and
\* reconciled
C31_Witness ==
    /\ obs.op = "checkCppProperties" /\ propertiesFile /\ ParsedAndReconciled(obs)
    /\ ~mtimeNewer /\ file.k = "json" /\ ~configurationIncomplete

\* C32: when the untitled document of an edit command gets its text, the
\* defaulting pass has run on the document in memory and the incomplete flag is
\* clear, and the text is that document
C32_DefaultedBeforeInsertion ==
    [][obs'.op = "untitledOpened" =>
        /\ obs'.defaulted /\ ~configurationIncomplete'
        /\ edit'.text = Stringify(configurationJson')
       ]_vars

\* a step that re-parses the file once, with success, from a store whose
\* incomplete flag is clear and whose index names a configuration
ReparsedFromValid ==
    /\ Len(obs'.parses) = 1 /\ obs'.parses[1].res = "ok"
    /\ ~configurationIncomplete
    /\ configurationJson.configurations.k = "arr"
    /\ currentConfigurationIndex >= 0
    /\ currentConfigurationIndex < Len(configurationJson.configurations.v)
\* the entries of a parsed document that have the name of the configuration
\* selected before the step
SameNameIn(doc) ==
    { i \in 1..Len(doc.configurations.v) :
        doc.configurations.v[i].name =
            configurationJson.configurations.v[currentConfigurationIndex + 1].name }
\* the entries of a parsed document that have the name of the host platform
HostNameIn(doc) ==
    { i \in 1..Len(doc.configurations.v) :
        doc.configurations.v[i].name = PlatformName(platform) }

\* C33: a successful re-parse, flag clear and index valid before it, leaves the
\* index at the first configuration of the new document that has the name of the
\* one selected before; when there is none, the index stays if the new document
\* has that many configurations, and becomes the index of the first configuration
\* named after the host platform otherwise, the last index when none is
C33_SelectionFollowsName ==
    [][ReparsedFromValid =>
        LET doc == obs'.parses[1].doc
            n == Len(doc.configurations.v)
        IN  IF SameNameIn(doc) # {}
            THEN \A i \in SameNameIn(doc) : currentConfigurationIndex' <= i - 1
                 /\ currentConfigurationIndex' + 1 \in SameNameIn(doc)
            ELSE IF currentConfigurationIndex < n
            THEN currentConfigurationIndex' = currentConfigurationIndex
            ELSE IF HostNameIn(doc) # {}
            THEN /\ currentConfigurationIndex' + 1 \in HostNameIn(doc)
                 /\ \A i \in HostNameIn(doc) : currentConfigurationIndex' <= i - 1
            ELSE currentConfigurationIndex' = n - 1
       ]_vars

\* C34: a store that stays without a file, to which the compiler defaults
\* arrive and whose include scan ends, eventually has the incomplete flag clear,
\* in a state reached by a step that emitted a configurations-changed
\* notification, whatever was selected and set before
C34_DefaultingEventually ==
    ([]~propertiesFile) =>
        <>(DefaultsArrived /\ ~configurationIncomplete /\ obs.changed # <<>>)

(***************************************************************************)
(* Claims about the provider registry (checked under SpecReg)              *)
(***************************************************************************)
\* the step just taken is a call of add
IsAdd == call'.op = "add"

\* C5: when a provider with explicit identity X (v1 or later) is registered and add
\* is called with a second valid v1+ provider whose explicit identity is X, the call
\* returns false and the registry still maps X to the first provider.
C5_DuplicateExplicitIdRejected ==
    [][ ( /\ IsAdd
          /\ call'.p.extensionId # ""
          /\ isValid(CustomProviderWrapper(call'.p, call'.ver))
          /\ has(providers, call'.p.extensionId)
          /\ version(providers[call'.p.extensionId]) >= v1
          /\ providers[call'.p.extensionId].provider.extensionId = call'.p.extensionId )
        => ( /\ call'.ret = FALSE
             /\ providers'[call'.p.extensionId] = providers[call'.p.extensionId] )
      ]_regVars

\* C6: when a legacy (v0) provider named N is registered and add is called with a
\* second, distinct valid v0 provider also named N, the call is accepted without a
\* duplicate error and get(N) then returns the second provider.
C6_SecondLegacyWins ==
    [][ ( /\ IsAdd
          /\ intelliSenseEngine # "Disabled"
          /\ call'.ver = v0
          /\ call'.p.extensionId = ""
          /\ isValid(CustomProviderWrapper(call'.p, call'.ver))
          /\ has(providers, call'.p.name)
          /\ version(providers[call'.p.name]) = v0
          /\ providers[call'.p.name].provider # call'.p )
        => ( /\ call'.ret = TRUE
             /\ call'.log # "duplicate"
             /\ get(providers', call'.p.name).provider = call'.p )
      ]_regVars

\* what C7 says checkId returns
ClaimedCheckId(reg, id) ==
    IF \E k \in DOMAIN reg : k = id
    THEN id
    ELSE LET named == { k \in DOMAIN reg : /\ reg[k]._version > v0
                                           /\ reg[k].provider.name = id }
         IN  IF Cardinality(named) = 1 THEN CHOOSE k \in named : TRUE ELSE id

\* C7: for every registry state and every non-empty id, checkId(id) is id when some
\* registered identity equals id; else the identity of the one non-legacy provider
\* whose display name is id; else (none, or several) id. With only a v1 provider
\* "Foo"/"ext.foo" registered: checkId("Foo") = "ext.foo", checkId("ext.foo") =
\* "ext.foo", checkId("Bar") = "Bar".
C7_CheckIdResult ==
    /\ \A id \in IdStrings \ {""} : checkId(providers, id) = ClaimedCheckId(providers, id)
    /\ (call.op = "checkId" /\ call.id # "")
          => call.out = ClaimedCheckId(providers, call.id)
    /\ ( /\ DOMAIN providers = {"ext.foo"}
         /\ providers["ext.foo"].provider.name = "Foo"
         /\ providers["ext.foo"]._version >= v1 )
          => /\ checkId(providers, "Foo") = "ext.foo"
             /\ checkId(providers, "ext.foo") = "ext.foo"
             /\ checkId(providers, "Bar") = "Bar"

\* a checkId call that upgraded a display name to an identity
C7_Witness ==
    /\ call.op = "checkId"
    /\ call.id = "Foo"
    /\ call.out = "ext.foo"

\* C8: checkId never changes the registry, returns the same result for the same id
\* on the same registry, and is idempotent: checkId(checkId(id)) = checkId(id).
C8_CheckIdPureIdempotent ==
    /\ [](\A id \in IdStrings :
            checkId(providers, checkId(providers, id)) = checkId(providers, id))
    /\ [][ call'.op = "checkId"
             => /\ providers' = providers
                /\ call'.out = checkId(providers', call'.id) ]_regVars

\* a checkId call whose result is itself the display name of another provider
C8_Witness ==
    /\ call.op = "checkId"
    /\ call.out # call.id
    /\ \E k \in DOMAIN providers : name(providers[k]) = call.out /\ k # call.out

\* the capability set a version requires
ValidAt(p, ver) ==
    /\ p.name # ""
    /\ BasicCaps \subseteq p.caps
    /\ ver >= v1 => (p.extensionId # "" /\ "dispose" \in p.caps)
    /\ ver >= v2 => ({"canProvideBrowseConfiguration", "provideBrowseConfiguration"}
                        \subseteq p.caps)

\* a provider declared at v0 that exposes an extensionId is treated as v1
EffectiveVersion(p, ver) == IF ver = v0 /\ p.extensionId # "" THEN v1 ELSE ver
IdentityAt(p, ver) == IF ver = v0 THEN p.name ELSE p.extensionId

\* C9 as stated: with IntelliSense enabled, add judges validity against the declared
\* version only (v0: name, canProvideConfiguration, provideConfigurations, whatever
\* else the provider exposes; v1: plus extensionId and dispose; v2: plus the browse
\* methods); invalid => false, valid with no entry under its identity => true and
\* stored under that identity.
C9_ValidityAtDeclaredVersion ==
    [][ (IsAdd /\ intelliSenseEngine # "Disabled")
        => /\ ~ValidAt(call'.p, call'.ver) => call'.ret = FALSE
           /\ (ValidAt(call'.p, call'.ver) /\ ~has(providers, getId(call'.p)))
                => /\ call'.ret = TRUE
                   /\ has(providers', getId(call'.p))
                   /\ providers'[getId(call'.p)].provider = call'.p
      ]_regVars

\* C9 amended: validity is judged against the effective version, which is the
\* declared version except that a provider declared at v0 that exposes an
\* extensionId is treated as v1 (and so must also have dispose).
C9_ValidityAtEffectiveVersion ==
    [][ (IsAdd /\ intelliSenseEngine # "Disabled")
        => LET p == call'.p
               ev == EffectiveVersion(call'.p, call'.ver)
               id == IdentityAt(p, ev)
           IN  /\ ~ValidAt(p, ev) => (call'.ret = FALSE /\ providers' = providers)
               /\ (ValidAt(p, ev) /\ ~has(providers, id))
                    => /\ call'.ret = TRUE
                       /\ has(providers', id)
                       /\ providers'[id].provider = p
                       /\ providers'[id]._version = ev
      ]_regVars

\* add refused a provider declared at v0 that has name, canProvideConfiguration and
\* provideConfigurations, because it exposes an extensionId and no dispose
C9_Witness ==
    /\ call.op = "add"
    /\ call.ver = v0
    /\ intelliSenseEngine # "Disabled"
    /\ ValidAt(call.p, v0)
    /\ call.p.extensionId # ""
    /\ "dispose" \notin call.p.caps
    /\ call.ret = FALSE
    /\ call.log = "missing"

\* C10: whenever add returns false the registry (its identities and the provider
\* under each) is unchanged; whenever it returns true the registry maps the new
\* provider's identity to the new provider.
C10_FailedAddHasNoEffect ==
    [][ IsAdd
        => /\ call'.ret = FALSE => providers' = providers
           /\ call'.ret = TRUE
                => /\ has(providers', getId(call'.p))
                   /\ providers'[getId(call'.p)].provider = call'.p
                   /\ \A k \in DOMAIN providers \ {getId(call'.p)} :
                         has(providers', k) /\ providers'[k] = providers[k]
      ]_regVars

\* add refused a duplicate while another provider was registered under the identity
C10_Witness ==
    /\ call.op = "add"
    /\ call.ret = FALSE
    /\ call.log = "duplicate"
    /\ has(providers, getId(call.p))
    /\ providers[getId(call.p)].provider # call.p

\* the identity add stores a provider under
AddIdentity(p, ver) == extensionId(CustomProviderWrapper(p, ver))

\* C11: after add(p, v) returned true, get(p) and get(identity of p) are the
\* wrapper of p; after remove(p), get(p) is null and every other entry is what it
\* was; remove(p) with no entry under the identity of p changes nothing and only
\* logs
C11_GetRemoveUseAddIdentity ==
    [][ /\ (IsAdd /\ call'.ret = TRUE)
            => /\ get(providers', getId(call'.p))
                      = CustomProviderWrapper(call'.p, call'.ver)
               /\ get(providers', AddIdentity(call'.p, call'.ver))
                      = CustomProviderWrapper(call'.p, call'.ver)
        /\ call'.op = "remove"
            => /\ get(providers', getId(call'.p)) = NoWrapper
               /\ \A k \in DOMAIN providers \ {getId(call'.p)} :
                      has(providers', k) /\ providers'[k] = providers[k]
               /\ DOMAIN providers' \subseteq DOMAIN providers
               /\ ~has(providers, getId(call'.p))
                      => providers' = providers /\ call'.log = "notRegistered"
      ]_regVars

\* remove took one provider out and left another one in
C11_Witness ==
    /\ call.op = "remove"
    /\ call.log = "none"
    /\ call.p.extensionId # ""
    /\ ~has(providers, getId(call.p))
    /\ providers # EmptyRegistry

\* C12 as claimed: a provider registered at a legacy version (v0, v1) is not
\* ready when add returns
C12_LegacyNotReadyAtRegistration ==
    [][ (IsAdd /\ call'.ret = TRUE /\ call'.ver < v2)
            => ~providers'[getId(call'.p)]._isReady ]_regVars

\* C12 as the code has it: a provider registered at v2 is not ready when add
\* returns, one registered at a legacy version is ready; after that isReady
\* changes only when it is set
C12_ReadyUnlessV2 ==
    [][ /\ (IsAdd /\ call'.ret = TRUE)
            => (providers'[getId(call'.p)]._isReady <=> call'.ver < v2)
        /\ call'.op \notin {"add", "setReady"}
            => \A k \in DOMAIN providers \cap DOMAIN providers' :
                   providers'[k]._isReady = providers[k]._isReady
        /\ call'.op = "setReady"
            => /\ providers'[call'.id]._isReady = call'.ret
               /\ \A k \in DOMAIN providers \ {call'.id} :
                      providers'[k] = providers[k]
      ]_regVars

\* a legacy provider has just been registered and is ready
C12_Witness ==
    /\ call.op = "add" /\ call.ret = TRUE /\ call.ver = v0
    /\ call.p.extensionId = ""
    /\ providers[getId(call.p)]._isReady

=============================================================================
